---- MODULE Spec2Model ----
(***************************************************************************)
(* Model of pixelscope's byte-level analysis code:                         *)
(*   src/src/utils/payloadCarving.ts  (signature scan, boundary detectors, *)
(*                                     detectCarvedPayloads)               *)
(*   src/src/utils/trailingData.ts    (host PNG/JPEG detectors,            *)
(*                                     extractTrailingData)                *)
(* A byte buffer (Uint8Array) is a sequence over 0..255.  Offsets are the  *)
(* code's zero-based offsets; At(bytes, i) is bytes[i].  null is Null.     *)
(***************************************************************************)
EXTENDS Integers, Sequences, FiniteSets, TLC

VARIABLES
  bytes,        \* the buffer handed to the operation
  options,      \* PayloadCarvingOptions: <<>> (maxFindings omitted) or <<n>>
  format,       \* declared format handed to extractTrailingData
  layout,       \* how the caller composed bytes: the parts it concatenated
  pc,           \* position of the running operation
  candidates,   \* detectCarvedPayloads: gatherCandidates(bytes)
  index,        \* detectCarvedPayloads: position of the for-of loop (0-based)
  matches,      \* detectCarvedPayloads: accepted payloads
  dedupe,       \* detectCarvedPayloads: keys already emitted
  trailing,     \* result of extractTrailingData (Null or a TrailingData)
  hostEnd,      \* result of the host detector (NotRun before the call)
  generalEnd,   \* result of the general-purpose detector at offset 0
  imageData,    \* extractBitPlaneStream: [width, height, data] (RGBA bytes)
  planes,       \* extractBitPlaneStream: the selected PlaneSpecs, as given
  extraction,   \* extractBitPlaneStream: BitExtractionOptions
  maxBytes,     \* extractBitPlaneStream: the byte budget
  stream,       \* result of extractBitPlaneStream (NoStream before the call)
  detectorKind, \* the catalog entry whose detector is called
  detectorStart, \* the offset the detector is started at
  detectorEnd,  \* result of the detector on bytes (NotRun before the call)
  variantEnd,   \* result of the detector on layout.variant, a rewriting of bytes
  heap,         \* contents of the ArrayBuffers: the file's, the pixels', a result's
  resultView,   \* the typed array a result holds: buffer, byteOffset, length
  scanMaxBytes, \* the larger byte budget of a second extractBitPlaneStream call
  scanStream,   \* what App's bitPlanePayloadCarving returned (NoScan before it ran)
  walk,         \* a boundary detector run one loop iteration at a time
  decode,       \* decodeImageFile: position and locals of one call
  resources,    \* decodeImageFile: releases of each browser resource acquired
  worker,       \* registerServiceWorker: the page, its listeners, register calls
  app,          \* App: the React state handleFile sets
  loads         \* App: the handleFile calls in the order they were started

carveVars == <<bytes, options, format, layout, pc, candidates, index, matches,
               dedupe, trailing, hostEnd, generalEnd>>

bitPlaneVars == <<imageData, planes, extraction, maxBytes, stream>>

detectorVars == <<detectorKind, detectorStart, detectorEnd, variantEnd>>

heapVars == <<heap, resultView>>

scanVars == <<scanMaxBytes, scanStream>>

walkVars == <<walk>>

decodeVars == <<decode, resources>>

workerVars == <<worker>>

appVars == <<app, loads>>

shellVars == <<scanVars, walkVars, decodeVars, workerVars, appVars>>

vars == <<carveVars, bitPlaneVars, detectorVars, heapVars, shellVars>>

\* ------------------------------------------------------------------------
\* Values
\* ------------------------------------------------------------------------
Null == -1          \* the code's null (offsets are never negative)
Undefined == -2     \* a read outside the Uint8Array
NotRun == -3        \* a result slot nothing has been written to yet

\* bytes[i] with JavaScript's out-of-range read
At(b, i) == IF i >= 0 /\ i < Len(b) THEN b[i + 1] ELSE Undefined

\* bytes[i] as an operand of | and << (ToInt32(undefined) = 0)
U8(b, i) == IF i >= 0 /\ i < Len(b) THEN b[i + 1] ELSE 0

\* bytes.slice(from)
Slice(b, from) == [k \in 1..(Len(b) - from) |-> b[from + k]]

Max(a, b) == IF a >= b THEN a ELSE b
Min(a, b) == IF a <= b THEN a ELSE b

\* A loop that only advances one offset at a time until a test succeeds:
\* the first offset o in lo .. hi - 1 with P(o), or hi when there is none
\* (stated without recursion so that long buffers evaluate in bounded depth)
FirstFrom(lo, hi, P(_)) ==
  IF \E o \in lo..(hi - 1) : P(o)
  THEN CHOOSE o \in lo..(hi - 1) : P(o) /\ \A q \in lo..(o - 1) : ~P(q)
  ELSE Max(lo, hi)

RECURSIVE Pow2(_)
Pow2(n) == IF n = 0 THEN 1 ELSE 2 * Pow2(n - 1)

\* ------------------------------------------------------------------------
\* payloadCarving.ts: signatures
\* ------------------------------------------------------------------------
PNG_SIGNATURE == <<137, 80, 78, 71, 13, 10, 26, 10>>
GIF87A_SIGNATURE == <<71, 73, 70, 56, 55, 97>>
GIF89A_SIGNATURE == <<71, 73, 70, 56, 57, 97>>
TIFF_LE_SIGNATURE == <<73, 73, 42, 0>>
TIFF_BE_SIGNATURE == <<77, 77, 0, 42>>
RIFF_SIGNATURE == <<82, 73, 70, 70>>
WEBP_SIGNATURE == <<87, 69, 66, 80>>
PDF_SIGNATURE == <<37, 80, 68, 70, 45>>
PDF_EOF_MARKER == <<37, 37, 69, 79, 70>>
ZIP_LOCAL_FILE_SIGNATURE == <<80, 75, 3, 4>>
ZIP_EOCD_SIGNATURE == <<80, 75, 5, 6>>

\* ------------------------------------------------------------------------
\* payloadCarving.ts: readers
\* ------------------------------------------------------------------------
matchesAt(b, offset, pattern) ==
  IF offset < 0 \/ offset + Len(pattern) > Len(b)
  THEN FALSE
  ELSE \A i \in 0..(Len(pattern) - 1) : At(b, offset + i) = pattern[i + 1]

readUint16LE(b, offset) ==
  IF offset < 0 \/ offset + 2 > Len(b)
  THEN Null
  ELSE U8(b, offset) + 256 * U8(b, offset + 1)

readUint16BE(b, offset) ==
  IF offset < 0 \/ offset + 2 > Len(b)
  THEN Null
  ELSE 256 * U8(b, offset) + U8(b, offset + 1)

\* (b3 << 24 | b2 << 16 | b1 << 8 | b0) >>> 0 : the unsigned 32-bit value of
\* four bytes.  The model's integers are 32-bit signed, so the value is kept
\* exactly as two 16-bit halves: it is 65536 * high + low.
uint32(b3, b2, b1, b0) == [high |-> 256 * b3 + b2, low |-> 256 * b1 + b0]

\* the null a four-byte reader returns for a read outside the buffer
NullUint32 == [isNull |-> TRUE]

\* n + u, for a number n of the model and a four-byte value u
uint32Plus(n, u) ==
  [high |-> u.high + ((u.low + n) \div 65536), low |-> (u.low + n) % 65536]

\* u > n
uint32Above(u, n) ==
  \/ u.high > n \div 65536
  \/ u.high = n \div 65536 /\ u.low > n % 65536

\* the number u, once it is known to be no larger than a buffer length
uint32Value(u) == 65536 * u.high + u.low

readUint32LE(b, offset) ==
  IF offset < 0 \/ offset + 4 > Len(b)
  THEN NullUint32
  ELSE uint32(U8(b, offset + 3), U8(b, offset + 2), U8(b, offset + 1), U8(b, offset))

\* readUint32BE without the final >>> 0: a set high bit makes the value
\* negative
readUint32BESigned(b, offset) ==
  IF offset < 0 \/ offset + 4 > Len(b)
  THEN NullUint32
  ELSE IF U8(b, offset) >= 128
  THEN [high |-> 256 * (U8(b, offset) - 256) + U8(b, offset + 1),
        low |-> 256 * U8(b, offset + 2) + U8(b, offset + 3)]
  ELSE uint32(U8(b, offset), U8(b, offset + 1), U8(b, offset + 2), U8(b, offset + 3))

readUint32BE(b, offset) ==
  IF offset < 0 \/ offset + 4 > Len(b)
  THEN NullUint32
  ELSE uint32(U8(b, offset), U8(b, offset + 1), U8(b, offset + 2), U8(b, offset + 3))

\* for (offset = startOffset; offset + pattern.length <= bytes.length; offset += 1)
findNextPattern(b, pattern, fromOffset) ==
  LET startOffset == Max(0, fromOffset)
      limit == Len(b) - Len(pattern) + 1
      found == FirstFrom(startOffset, limit, LAMBDA o : matchesAt(b, o, pattern))
  IN IF found < limit THEN found ELSE -1

\* ------------------------------------------------------------------------
\* payloadCarving.ts: PNG
\* ------------------------------------------------------------------------
isIend(b, chunkTypeOffset) ==
  /\ At(b, chunkTypeOffset) = 73
  /\ At(b, chunkTypeOffset + 1) = 69
  /\ At(b, chunkTypeOffset + 2) = 78
  /\ At(b, chunkTypeOffset + 3) = 68

RECURSIVE findPngEndLoop(_, _)
findPngEndLoop(b, offset) ==
  IF offset + 12 <= Len(b)
  THEN LET chunkLength == readUint32BE(b, offset) IN
       IF chunkLength = NullUint32
       THEN Null
       ELSE LET chunkTypeOffset == offset + 4
                chunkEnd == uint32Plus(chunkTypeOffset + 4 + 4, chunkLength)
            IN IF uint32Above(chunkEnd, Len(b))
               THEN Null
               ELSE IF isIend(b, chunkTypeOffset)
                    THEN uint32Value(chunkEnd)
                    ELSE findPngEndLoop(b, uint32Value(chunkEnd))
  ELSE Null

findPngEnd(b, startOffset) ==
  IF ~matchesAt(b, startOffset, PNG_SIGNATURE)
  THEN Null
  ELSE findPngEndLoop(b, startOffset + Len(PNG_SIGNATURE))

\* ------------------------------------------------------------------------
\* payloadCarving.ts: JPEG
\* ------------------------------------------------------------------------
isStandaloneMarker(marker) ==
  marker = 216 \/ marker = 1 \/ (marker >= 208 /\ marker <= 215)

\* lines 187-190: while (markerOffset < bytes.length && bytes[markerOffset] === 0xff)
findJpegEndSkipFill(b, markerOffset) ==
  FirstFrom(markerOffset, Len(b), LAMBDA o : At(b, o) # 255)

\* lines 181-185: the iterations that step over one byte that is not 0xff;
\* the offset of the next 0xff the loop stops at, or an offset the loop
\* condition rejects
findJpegEndSkipData(b, offset) ==
  FirstFrom(offset, Len(b) - 1, LAMBDA o : At(b, o) = 255)

\* findJpegEndLoop without the test for the stuffing byte: 0x00 after 0xff is
\* read as a marker that carries a length
RECURSIVE findJpegEndLoopNoStuffing(_, _)
findJpegEndLoopNoStuffing(b, offset0) ==
  LET offset == findJpegEndSkipData(b, offset0) IN
  IF offset + 1 < Len(b)
  THEN      LET markerOffset == findJpegEndSkipFill(b, offset + 1) IN
            IF markerOffset >= Len(b)
            THEN Null
            ELSE LET marker == At(b, markerOffset) IN
                 IF marker = 217
                 THEN markerOffset + 1
                 ELSE IF isStandaloneMarker(marker)
                 THEN findJpegEndLoopNoStuffing(b, markerOffset + 1)
                 ELSE LET segmentLength == readUint16BE(b, markerOffset + 1) IN
                      IF segmentLength = Null \/ segmentLength < 2
                      THEN Null
                      ELSE LET segmentEnd == markerOffset + 1 + segmentLength IN
                           IF segmentEnd > Len(b)
                           THEN Null
                           ELSE findJpegEndLoopNoStuffing(b, segmentEnd)
  ELSE Null

\* lines 181-223: the loop, entered at offset
RECURSIVE findJpegEndLoop(_, _)
findJpegEndLoop(b, offset0) ==
  LET offset == findJpegEndSkipData(b, offset0) IN
  IF offset + 1 < Len(b)
  THEN      LET markerOffset == findJpegEndSkipFill(b, offset + 1) IN
            IF markerOffset >= Len(b)
            THEN Null
            ELSE LET marker == At(b, markerOffset) IN
                 IF marker = 0
                 THEN findJpegEndLoop(b, markerOffset + 1)
                 ELSE IF marker = 217
                 THEN markerOffset + 1
                 ELSE IF isStandaloneMarker(marker)
                 THEN findJpegEndLoop(b, markerOffset + 1)
                 ELSE LET segmentLength == readUint16BE(b, markerOffset + 1) IN
                      IF segmentLength = Null \/ segmentLength < 2
                      THEN Null
                      ELSE LET segmentEnd == markerOffset + 1 + segmentLength IN
                           IF segmentEnd > Len(b)
                           THEN Null
                           ELSE findJpegEndLoop(b, segmentEnd)
  ELSE Null

findJpegEnd(b, startOffset) ==
  IF \/ startOffset + 3 > Len(b)
     \/ At(b, startOffset) # 255
     \/ At(b, startOffset + 1) # 216
     \/ At(b, startOffset + 2) # 255
  THEN Null
  ELSE findJpegEndLoop(b, startOffset + 2)

\* ------------------------------------------------------------------------
\* payloadCarving.ts: GIF
\* ------------------------------------------------------------------------
\* 3 * (1 << ((packed & 0x07) + 1))
gifTableSize(packed) == 3 * Pow2((packed % 8) + 1)

\* (packed & 0x80) !== 0
gifHasTable(packed) == packed >= 128

\* lines 278-288: sub-blocks of image data; Null, or the offset after the loop
RECURSIVE findGifEndImageSubBlocks(_, _)
findGifEndImageSubBlocks(b, offset) ==
  IF offset < Len(b)
  THEN LET blockSize == At(b, offset) IN
       IF blockSize = 0
       THEN offset + 1
       ELSE IF offset + 1 + blockSize > Len(b)
            THEN Null
            ELSE findGifEndImageSubBlocks(b, offset + 1 + blockSize)
  ELSE offset

\* lines 322-332: sub-blocks after an extension's first block
RECURSIVE findGifEndExtensionSubBlocks(_, _)
findGifEndExtensionSubBlocks(b, offset) ==
  IF offset < Len(b)
  THEN LET blockSize == At(b, offset) IN
       IF blockSize = 0
       THEN offset + 1
       ELSE IF offset + 1 + blockSize > Len(b)
            THEN Null
            ELSE findGifEndExtensionSubBlocks(b, offset + 1 + blockSize)
  ELSE offset

RECURSIVE findGifEndLoop(_, _)
findGifEndLoop(b, offset0) ==
  IF offset0 < Len(b)
  THEN LET sentinel == At(b, offset0)
           offset == offset0 + 1
       IN
       IF sentinel = 59
       THEN offset
       ELSE IF sentinel = 44
       THEN IF offset + 9 > Len(b)
            THEN Null
            ELSE LET packedLocal == At(b, offset + 8)
                     afterTable == IF gifHasTable(packedLocal)
                                   THEN offset + 9 + gifTableSize(packedLocal)
                                   ELSE offset + 9
                 IN IF afterTable > Len(b)
                    THEN Null
                    ELSE IF afterTable >= Len(b)
                    THEN Null
                    ELSE LET next == findGifEndImageSubBlocks(b, afterTable + 1) IN
                         IF next = Null THEN Null ELSE findGifEndLoop(b, next)
       ELSE IF sentinel = 33
       THEN IF offset >= Len(b)
            THEN Null
            ELSE LET extensionLabel == At(b, offset)
                     body == offset + 1
                 IN
                 IF extensionLabel = 249
                 THEN IF body >= Len(b)
                      THEN Null
                      ELSE LET terminator == body + 1 + At(b, body) IN
                           IF terminator >= Len(b) \/ At(b, terminator) # 0
                           THEN Null
                           ELSE findGifEndLoop(b, terminator + 1)
                 ELSE IF body >= Len(b)
                      THEN Null
                      ELSE LET afterFirst == body + 1 + At(b, body) IN
                           IF afterFirst > Len(b)
                           THEN Null
                           ELSE LET next == findGifEndExtensionSubBlocks(b, afterFirst) IN
                                IF next = Null THEN Null ELSE findGifEndLoop(b, next)
       ELSE Null
  ELSE Null

findGifEnd(b, startOffset) ==
  IF ~(matchesAt(b, startOffset, GIF87A_SIGNATURE)
       \/ matchesAt(b, startOffset, GIF89A_SIGNATURE))
  THEN Null
  ELSE IF startOffset + 13 > Len(b)
  THEN Null
  ELSE LET packedGlobal == At(b, startOffset + 10)
           offset == IF gifHasTable(packedGlobal)
                     THEN startOffset + 13 + gifTableSize(packedGlobal)
                     ELSE startOffset + 13
       IN IF offset > Len(b) THEN Null ELSE findGifEndLoop(b, offset)

\* ------------------------------------------------------------------------
\* payloadCarving.ts: WebP, BMP
\* ------------------------------------------------------------------------
findWebpEnd(b, startOffset) ==
  IF ~matchesAt(b, startOffset, RIFF_SIGNATURE)
     \/ ~matchesAt(b, startOffset + 8, WEBP_SIGNATURE)
  THEN Null
  ELSE LET riffPayloadLength == readUint32LE(b, startOffset + 4) IN
       IF riffPayloadLength = NullUint32
       THEN Null
       ELSE LET endOffset == uint32Plus(startOffset + 8, riffPayloadLength) IN
            IF uint32Above(endOffset, Len(b)) \/ ~uint32Above(endOffset, startOffset + 8)
            THEN Null
            ELSE uint32Value(endOffset)

\* findBmpEnd that takes a BMP to run to the end of the buffer
findBmpEndToBufferEnd(b, startOffset) ==
  IF \/ startOffset + 6 > Len(b)
     \/ At(b, startOffset) # 66
     \/ At(b, startOffset + 1) # 77
  THEN Null
  ELSE LET size == readUint32LE(b, startOffset + 2) IN
       IF size = NullUint32 \/ ~uint32Above(size, 25)
       THEN Null
       ELSE LET endOffset == uint32Plus(startOffset, size) IN
            IF uint32Above(endOffset, Len(b)) THEN Null ELSE Len(b)

\* findBmpEnd without the floor of 26 bytes on the declared size
findBmpEndAnySize(b, startOffset) ==
  IF \/ startOffset + 6 > Len(b)
     \/ At(b, startOffset) # 66
     \/ At(b, startOffset + 1) # 77
  THEN Null
  ELSE LET size == readUint32LE(b, startOffset + 2) IN
       IF size = NullUint32
       THEN Null
       ELSE LET endOffset == uint32Plus(startOffset, size) IN
            IF uint32Above(endOffset, Len(b)) THEN Null ELSE uint32Value(endOffset)

findBmpEnd(b, startOffset) ==
  IF \/ startOffset + 6 > Len(b)
     \/ At(b, startOffset) # 66
     \/ At(b, startOffset + 1) # 77
  THEN Null
  ELSE LET size == readUint32LE(b, startOffset + 2) IN
       IF size = NullUint32 \/ ~uint32Above(size, 25)
       THEN Null
       ELSE LET endOffset == uint32Plus(startOffset, size) IN
            IF uint32Above(endOffset, Len(b)) THEN Null ELSE uint32Value(endOffset)

\* ------------------------------------------------------------------------
\* payloadCarving.ts: PDF
\* ------------------------------------------------------------------------
\* findPdfEndSearch that stops at the first %%EOF
findPdfEndSearchFirst(b, searchOffset, lastEofOffset) ==
  IF searchOffset + Len(PDF_EOF_MARKER) <= Len(b)
  THEN LET found == findNextPattern(b, PDF_EOF_MARKER, searchOffset) IN
       IF found < 0 THEN lastEofOffset ELSE found
  ELSE lastEofOffset

\* lines 393-401: the offset of the last %%EOF found, lastEofOffset on entry
RECURSIVE findPdfEndSearch(_, _, _)
findPdfEndSearch(b, searchOffset, lastEofOffset) ==
  IF searchOffset + Len(PDF_EOF_MARKER) <= Len(b)
  THEN LET found == findNextPattern(b, PDF_EOF_MARKER, searchOffset) IN
       IF found < 0
       THEN lastEofOffset
       ELSE findPdfEndSearch(b, found + Len(PDF_EOF_MARKER), found)
  ELSE lastEofOffset

isPdfWhitespace(value) ==
  value = 13 \/ value = 10 \/ value = 32 \/ value = 9

\* lines 408-415
findPdfEndSkipWhitespace(b, endOffset) ==
  FirstFrom(endOffset, Len(b), LAMBDA o : ~isPdfWhitespace(At(b, o)))

findPdfEnd(b, startOffset) ==
  IF ~matchesAt(b, startOffset, PDF_SIGNATURE)
  THEN Null
  ELSE LET lastEofOffset ==
             findPdfEndSearch(b, startOffset + Len(PDF_SIGNATURE), -1)
       IN IF lastEofOffset < 0
          THEN Null
          ELSE findPdfEndSkipWhitespace(b, lastEofOffset + Len(PDF_EOF_MARKER))

\* ------------------------------------------------------------------------
\* payloadCarving.ts: ZIP
\* ------------------------------------------------------------------------
\* lines 430-442: the body of the for loop returns at offset
findZipEndAt(b, offset) ==
  /\ matchesAt(b, offset, ZIP_EOCD_SIGNATURE)
  /\ readUint16LE(b, offset + 20) # Null
  /\ offset + 22 + readUint16LE(b, offset + 20) <= Len(b)

\* findZipEndLoop that takes the EOCD record to be 20 bytes long
findZipEndLoopShortRecord(b, offset) ==
  LET limit == Len(b) - 22 + 1
      eocd == FirstFrom(offset, limit, LAMBDA o : findZipEndAt(b, o))
  IN IF eocd < limit
     THEN eocd + 20 + readUint16LE(b, eocd + 20)
     ELSE Null

\* findZipEndLoop that returns null when the first EOCD signature's end does
\* not fit, instead of trying the next signature
findZipEndLoopFirstSignature(b, offset) ==
  LET limit == Len(b) - 22 + 1
      eocd == FirstFrom(offset, limit, LAMBDA o : matchesAt(b, o, ZIP_EOCD_SIGNATURE))
  IN IF eocd < limit /\ findZipEndAt(b, eocd)
     THEN eocd + 22 + readUint16LE(b, eocd + 20)
     ELSE Null

\* lines 425-445: for (offset = ...; offset + 22 <= bytes.length; offset += 1)
findZipEndLoop(b, offset) ==
  LET limit == Len(b) - 22 + 1
      eocd == FirstFrom(offset, limit, LAMBDA o : findZipEndAt(b, o))
  IN IF eocd < limit
     THEN eocd + 22 + readUint16LE(b, eocd + 20)
     ELSE Null

findZipEnd(b, startOffset) ==
  IF ~matchesAt(b, startOffset, ZIP_LOCAL_FILE_SIGNATURE)
  THEN Null
  ELSE findZipEndLoop(b, startOffset + Len(ZIP_LOCAL_FILE_SIGNATURE))

\* ------------------------------------------------------------------------
\* payloadCarving.ts: SIGNATURE_SPECS
\* ------------------------------------------------------------------------
matchWebpAt(b, offset) ==
  matchesAt(b, offset, RIFF_SIGNATURE) /\ matchesAt(b, offset + 8, WEBP_SIGNATURE)

\* the catalog's kinds, in catalog order
SIGNATURE_SPECS == <<"png", "jpeg", "gif", "webp", "bmp", "tiff", "pdf", "zip">>

\* spec.matchAt
matchAt(kind, b, offset) ==
  CASE kind = "png" -> matchesAt(b, offset, PNG_SIGNATURE)
    [] kind = "jpeg" -> /\ offset + 3 <= Len(b)
                        /\ At(b, offset) = 255
                        /\ At(b, offset + 1) = 216
                        /\ At(b, offset + 2) = 255
    [] kind = "gif" -> \/ matchesAt(b, offset, GIF87A_SIGNATURE)
                       \/ matchesAt(b, offset, GIF89A_SIGNATURE)
    [] kind = "webp" -> matchWebpAt(b, offset)
    [] kind = "bmp" -> /\ offset + 2 <= Len(b)
                       /\ At(b, offset) = 66
                       /\ At(b, offset + 1) = 77
    [] kind = "tiff" -> \/ matchesAt(b, offset, TIFF_LE_SIGNATURE)
                        \/ matchesAt(b, offset, TIFF_BE_SIGNATURE)
    [] kind = "pdf" -> matchesAt(b, offset, PDF_SIGNATURE)
    [] kind = "zip" -> matchesAt(b, offset, ZIP_LOCAL_FILE_SIGNATURE)

\* spec.findEnd
findEnd(kind, b, startOffset) ==
  CASE kind = "png" -> findPngEnd(b, startOffset)
    [] kind = "jpeg" -> findJpegEnd(b, startOffset)
    [] kind = "gif" -> findGifEnd(b, startOffset)
    [] kind = "webp" -> findWebpEnd(b, startOffset)
    [] kind = "bmp" -> findBmpEnd(b, startOffset)
    [] kind = "tiff" -> Null
    [] kind = "pdf" -> findPdfEnd(b, startOffset)
    [] kind = "zip" -> findZipEnd(b, startOffset)

\* spec.strategy
specStrategy(kind) ==
  CASE kind = "png" -> "Parsed PNG chunks through IEND."
    [] kind = "jpeg" -> "Parsed JPEG markers through EOI."
    [] kind = "gif" -> "Parsed GIF block stream through trailer."
    [] kind = "webp" -> "Used RIFF container length."
    [] kind = "bmp" -> "Used BMP file size field."
    [] kind = "tiff" -> "No reliable TIFF end marker; used signature boundary fallback."
    [] kind = "pdf" -> "Searched for final %%EOF marker."
    [] kind = "zip" -> "Parsed ZIP EOCD footer."

FALLBACK_STRATEGY == "Signature matched; carved to next signature/end of scan."

\* ------------------------------------------------------------------------
\* payloadCarving.ts: gatherCandidates
\* ------------------------------------------------------------------------
\* gatherAtOffset of a scan that starts at offset 1 instead of 0
RECURSIVE gatherAtOffsetFromOne(_, _, _, _)
gatherAtOffsetFromOne(b, offset, k, acc) ==
  IF k > Len(SIGNATURE_SPECS) \/ offset = 0
  THEN acc
  ELSE LET kind == SIGNATURE_SPECS[k]
           key == <<kind, offset>>
       IN IF ~matchAt(kind, b, offset) \/ key \in acc[2]
          THEN gatherAtOffsetFromOne(b, offset, k + 1, acc)
          ELSE gatherAtOffsetFromOne(b, offset, k + 1,
                 <<Append(acc[1], [kind |-> kind, startOffset |-> offset]),
                   acc[2] \cup {key}>>)

\* the inner for-of over SIGNATURE_SPECS at one offset, from spec number k
\* acc = <<candidates, dedupe>>
RECURSIVE gatherAtOffset(_, _, _, _)
gatherAtOffset(b, offset, k, acc) ==
  IF k > Len(SIGNATURE_SPECS)
  THEN acc
  ELSE LET kind == SIGNATURE_SPECS[k]
           key == <<kind, offset>>
       IN IF ~matchAt(kind, b, offset)
          THEN gatherAtOffset(b, offset, k + 1, acc)
          ELSE IF key \in acc[2]
          THEN gatherAtOffset(b, offset, k + 1, acc)
          ELSE gatherAtOffset(b, offset, k + 1,
                 <<Append(acc[1], [kind |-> kind, startOffset |-> offset]),
                   acc[2] \cup {key}>>)

\* the outer for over the offsets lo .. hi - 1, in ascending order.  A key
\* holds its offset, so the dedupe set only ever answers for keys added at
\* the same offset: each offset is scanned with its own set, and the range is
\* walked in two halves, which keeps the evaluation shallow.
RECURSIVE gatherRange(_, _, _)
gatherRange(b, lo, hi) ==
  IF hi <= lo
  THEN <<>>
  ELSE IF hi = lo + 1
  THEN gatherAtOffset(b, lo, 1, <<<<>>, {}>>)[1]
  ELSE LET mid == (lo + hi) \div 2 IN
       gatherRange(b, lo, mid) \o gatherRange(b, mid, hi)

\* Array.prototype.sort with (a, b) => a.startOffset - b.startOffset: the
\* stable ascending sort.  Element i goes after every element with a smaller
\* key and after the earlier elements with the same key.
sortedPositionDescending(cs, i) ==
  Cardinality({j \in 1..Len(cs) :
                 \/ cs[i].startOffset - cs[j].startOffset < 0
                 \/ (cs[i].startOffset - cs[j].startOffset = 0 /\ j < i)}) + 1

sortedPosition(cs, i) ==
  Cardinality({j \in 1..Len(cs) :
                 \/ cs[j].startOffset - cs[i].startOffset < 0
                 \/ (cs[j].startOffset - cs[i].startOffset = 0 /\ j < i)}) + 1

sortByStartOffset(cs) ==
  [p \in 1..Len(cs) |-> cs[CHOOSE i \in 1..Len(cs) : sortedPosition(cs, i) = p]]

gatherCandidates(b) ==
  sortByStartOffset(gatherRange(b, 0, Len(b)))

\* ------------------------------------------------------------------------
\* payloadCarving.ts: findNextCandidateOffset
\* ------------------------------------------------------------------------
\* findNextCandidateOffset that keeps the last offset greater than the
\* current one instead of returning at the first
findNextCandidateOffsetLast(sortedStartOffsets, currentStartOffset) ==
  LET greater == {i \in 1..Len(sortedStartOffsets) :
                    sortedStartOffsets[i] > currentStartOffset}
  IN IF greater = {}
     THEN Null
     ELSE sortedStartOffsets[CHOOSE i \in greater : \A j \in greater : j <= i]

\* findNextCandidateOffset that also accepts the current offset
findNextCandidateOffsetInclusive(sortedStartOffsets, currentStartOffset) ==
  LET n == Len(sortedStartOffsets)
      k == FirstFrom(1, n + 1, LAMBDA i : sortedStartOffsets[i] >= currentStartOffset)
  IN IF k <= n THEN sortedStartOffsets[k] ELSE Null

\* for (const offset of sortedStartOffsets) if (offset > currentStartOffset) return offset
findNextCandidateOffset(sortedStartOffsets, currentStartOffset) ==
  LET n == Len(sortedStartOffsets)
      k == FirstFrom(1, n + 1, LAMBDA i : sortedStartOffsets[i] > currentStartOffset)
  IN IF k <= n THEN sortedStartOffsets[k] ELSE Null


\* ------------------------------------------------------------------------
\* trailingData.ts: host detectors
\* ------------------------------------------------------------------------
TRAILING_PNG_SIGNATURE == <<137, 80, 78, 71, 13, 10, 26, 10>>

\* trailingReadUint32BE reading the four bytes in little-endian order
trailingReadUint32LittleEndian(b, offset) ==
  uint32(U8(b, offset + 3), U8(b, offset + 2), U8(b, offset + 1), U8(b, offset))

\* trailingData.ts readUint32BE: no bounds check
trailingReadUint32BE(b, offset) ==
  uint32(U8(b, offset), U8(b, offset + 1), U8(b, offset + 2), U8(b, offset + 3))

\* findPngContainerEndLoop that leaves the 4 CRC bytes out of a chunk
RECURSIVE findPngContainerEndLoopNoCrc(_, _)
findPngContainerEndLoopNoCrc(b, offset) ==
  IF offset + 12 <= Len(b)
  THEN LET chunkLength == trailingReadUint32BE(b, offset)
           chunkTypeOffset == offset + 4
           chunkEnd == uint32Plus(chunkTypeOffset + 4, chunkLength)
       IN IF uint32Above(chunkEnd, Len(b))
          THEN Null
          ELSE IF /\ At(b, chunkTypeOffset) = 73
                  /\ At(b, chunkTypeOffset + 1) = 69
                  /\ At(b, chunkTypeOffset + 2) = 78
                  /\ At(b, chunkTypeOffset + 3) = 68
               THEN uint32Value(chunkEnd)
               ELSE findPngContainerEndLoopNoCrc(b, uint32Value(chunkEnd))
  ELSE Null

RECURSIVE findPngContainerEndLoop(_, _)
findPngContainerEndLoop(b, offset) ==
  IF offset + 12 <= Len(b)
  THEN LET chunkLength == trailingReadUint32BE(b, offset)
           chunkTypeOffset == offset + 4
           chunkEnd == uint32Plus(chunkTypeOffset + 4 + 4, chunkLength)
       IN IF uint32Above(chunkEnd, Len(b))
          THEN Null
          ELSE IF /\ At(b, chunkTypeOffset) = 73
                  /\ At(b, chunkTypeOffset + 1) = 69
                  /\ At(b, chunkTypeOffset + 2) = 78
                  /\ At(b, chunkTypeOffset + 3) = 68
               THEN uint32Value(chunkEnd)
               ELSE findPngContainerEndLoop(b, uint32Value(chunkEnd))
  ELSE Null

findPngContainerEnd(b) ==
  IF Len(b) < Len(TRAILING_PNG_SIGNATURE)
  THEN Null
  ELSE IF \E i \in 0..(Len(TRAILING_PNG_SIGNATURE) - 1) :
            At(b, i) # TRAILING_PNG_SIGNATURE[i + 1]
  THEN Null
  ELSE findPngContainerEndLoop(b, Len(TRAILING_PNG_SIGNATURE))

\* lines 65-68
findJpegContainerEndSkipFill(b, markerOffset) ==
  FirstFrom(markerOffset, Len(b), LAMBDA o : At(b, o) # 255)

\* lines 59-63: the iterations that step over one byte that is not 0xff
findJpegContainerEndSkipData(b, offset) ==
  FirstFrom(offset, Len(b) - 1, LAMBDA o : At(b, o) = 255)

\* lines 59-109: the loop, entered at offset
RECURSIVE findJpegContainerEndLoop(_, _)
findJpegContainerEndLoop(b, offset0) ==
  LET offset == findJpegContainerEndSkipData(b, offset0) IN
  IF offset + 1 < Len(b)
  THEN      LET markerOffset == findJpegContainerEndSkipFill(b, offset + 1) IN
            IF markerOffset >= Len(b)
            THEN Null
            ELSE LET marker == At(b, markerOffset) IN
                 IF marker = 0
                 THEN findJpegContainerEndLoop(b, markerOffset + 1)
                 ELSE IF marker = 217
                 THEN markerOffset + 1
                 ELSE IF marker = 216 \/ marker = 1 \/ (marker >= 208 /\ marker <= 215)
                 THEN findJpegContainerEndLoop(b, markerOffset + 1)
                 ELSE IF markerOffset + 2 >= Len(b)
                 THEN Null
                 ELSE LET segmentLength ==
                            256 * U8(b, markerOffset + 1) + U8(b, markerOffset + 2)
                      IN IF segmentLength < 2
                         THEN Null
                         ELSE LET segmentEnd == markerOffset + 1 + segmentLength IN
                              IF segmentEnd > Len(b)
                              THEN Null
                              ELSE findJpegContainerEndLoop(b, segmentEnd)
  ELSE Null

findJpegContainerEnd(b) ==
  IF Len(b) < 4 \/ At(b, 0) # 255 \/ At(b, 1) # 216
  THEN Null
  ELSE findJpegContainerEndLoop(b, 2)

\* DecodedImage["format"]
SupportedImageFormat ==
  {"image/jpeg", "image/png", "image/webp", "image/bmp", "image/tiff", "image/gif"}

findContainerEndOffset(b, fmt) ==
  IF fmt = "image/png"
  THEN findPngContainerEnd(b)
  ELSE IF fmt = "image/jpeg"
  THEN findJpegContainerEnd(b)
  ELSE Null

\* ------------------------------------------------------------------------
\* trailingData.ts: extractTrailingData
\* ------------------------------------------------------------------------
NoTrailingData == [isNull |-> TRUE]

\* extractTrailingData that accepts an end equal to the buffer length
extractTrailingDataAtEnd(b, fmt) ==
  LET containerEndOffset == findContainerEndOffset(b, fmt) IN
  IF containerEndOffset = Null \/ containerEndOffset > Len(b)
  THEN NoTrailingData
  ELSE [isNull |-> FALSE,
        containerEndOffset |-> containerEndOffset,
        byteLength |-> Len(b) - containerEndOffset,
        bytes |-> Slice(b, containerEndOffset)]

extractTrailingData(b, fmt) ==
  LET containerEndOffset == findContainerEndOffset(b, fmt) IN
  IF containerEndOffset = Null \/ containerEndOffset >= Len(b)
  THEN NoTrailingData
  ELSE [isNull |-> FALSE,
        containerEndOffset |-> containerEndOffset,
        byteLength |-> Len(b) - containerEndOffset,
        bytes |-> Slice(b, containerEndOffset)]


\* ------------------------------------------------------------------------
\* payloadCarving.ts: detectCarvedPayloads
\* ------------------------------------------------------------------------
DEFAULT_MAX_FINDINGS == 24

\* maxFindingsOf without the clamp at zero
maxFindingsOfUnclamped(opts) ==
  IF opts = <<>> THEN DEFAULT_MAX_FINDINGS ELSE opts[1]

\* Math.max(0, options.maxFindings ?? 24)
maxFindingsOf(opts) ==
  Max(0, IF opts = <<>> THEN DEFAULT_MAX_FINDINGS ELSE opts[1])

\* candidates.map((candidate) => candidate.startOffset)
candidateOffsetsOf(cs) == [k \in 1..Len(cs) |-> cs[k].startOffset]

\* detectedConfidence without the PDF exception
detectedConfidenceAlwaysHigh(kind) == "high"

\* candidate.spec.kind === "pdf" ? "medium" : "high"
detectedConfidence(kind) == IF kind = "pdf" THEN "medium" ELSE "high"

\* lines 613-617: the detector's answer is unusable
invalidEnd(endOffset, startOffset, b) ==
  endOffset = Null \/ endOffset <= startOffset \/ endOffset > Len(b)

\* lines 618-622: nextStartOffset ?? bytes.length
fallbackEnd(candidateOffsets, startOffset, b) ==
  LET nextStartOffset == findNextCandidateOffset(candidateOffsets, startOffset) IN
  IF nextStartOffset = Null THEN Len(b) ELSE nextStartOffset

\* lines 608-629: the span, confidence and strategy of one candidate;
\* skip is the `continue` of line 624
resolveCandidate(candidate, b, candidateOffsets) ==
  LET detected == findEnd(candidate.kind, b, candidate.startOffset) IN
  IF invalidEnd(detected, candidate.startOffset, b)
  THEN LET endOffset == fallbackEnd(candidateOffsets, candidate.startOffset, b) IN
       [skip |-> endOffset <= candidate.startOffset,
        endOffset |-> endOffset,
        confidence |-> "low",
        strategy |-> FALLBACK_STRATEGY]
  ELSE [skip |-> FALSE,
        endOffset |-> detected,
        confidence |-> detectedConfidence(candidate.kind),
        strategy |-> specStrategy(candidate.kind)]

\* makePayload with the inclusive length endOffset - startOffset + 1
makePayloadInclusiveLength(candidate, resolved) ==
  [id |-> <<candidate.kind, candidate.startOffset, resolved.endOffset>>,
   kind |-> candidate.kind,
   startOffset |-> candidate.startOffset,
   endOffset |-> resolved.endOffset,
   byteLength |-> resolved.endOffset - candidate.startOffset + 1,
   confidence |-> resolved.confidence,
   strategy |-> resolved.strategy]

\* lines 637-649: the CarvedPayload pushed (label, extension, mimeType and
\* signature are constants of the kind and are not carried)
makePayload(candidate, resolved) ==
  [id |-> <<candidate.kind, candidate.startOffset, resolved.endOffset>>,
   kind |-> candidate.kind,
   startOffset |-> candidate.startOffset,
   endOffset |-> resolved.endOffset,
   byteLength |-> resolved.endOffset - candidate.startOffset,
   confidence |-> resolved.confidence,
   strategy |-> resolved.strategy]

\* lines 589-605: the early returns and the scan
CarveBegin ==
  /\ pc = "start"
  /\ IF Len(bytes) = 0
     THEN /\ pc' = "done"
          /\ candidates' = <<>>
     ELSE IF maxFindingsOf(options) = 0
     THEN /\ pc' = "done"
          /\ candidates' = <<>>
     ELSE /\ candidates' = gatherCandidates(bytes)
          /\ pc' = IF Len(candidates') = 0 THEN "done" ELSE "loop"
  /\ index' = 0
  /\ matches' = <<>>
  /\ dedupe' = {}
  /\ UNCHANGED <<bytes, options, format, layout, trailing, hostEnd, generalEnd>>
  /\ UNCHANGED <<bitPlaneVars, detectorVars, heapVars>>
  /\ UNCHANGED shellVars

\* lines 607-654: one iteration of the for-of loop
CarveStep ==
  /\ pc = "loop"
  /\ index < Len(candidates)
  /\ LET candidate == candidates[index + 1]
         resolved == resolveCandidate(candidate, bytes, candidateOffsetsOf(candidates))
         payload == makePayload(candidate, resolved)
     IN IF resolved.skip
        THEN /\ index' = index + 1
             /\ UNCHANGED <<pc, matches, dedupe>>
        ELSE IF payload.id \in dedupe
        THEN /\ index' = index + 1
             /\ UNCHANGED <<pc, matches, dedupe>>
        ELSE /\ dedupe' = dedupe \cup {payload.id}
             /\ matches' = Append(matches, payload)
             /\ IF Len(matches') >= maxFindingsOf(options)
                THEN /\ pc' = "done"
                     /\ UNCHANGED index
                ELSE /\ index' = index + 1
                     /\ UNCHANGED pc
  /\ UNCHANGED <<bytes, options, format, layout, candidates, trailing, hostEnd, generalEnd>>
  /\ UNCHANGED <<bitPlaneVars, detectorVars, heapVars>>
  /\ UNCHANGED shellVars

\* line 656: the loop ran out of candidates
CarveReturn ==
  /\ pc = "loop"
  /\ index >= Len(candidates)
  /\ pc' = "done"
  /\ UNCHANGED <<bytes, options, format, layout, candidates, index, matches, dedupe,
                 trailing, hostEnd, generalEnd>>
  /\ UNCHANGED <<bitPlaneVars, detectorVars, heapVars>>
  /\ UNCHANGED shellVars

\* detectCarvedPayloads as one call: the loop of lines 607-654 from candidate
\* i on, with the payloads found and the keys seen so far
RECURSIVE detectCarvedPayloadsLoop(_, _, _, _, _, _)
detectCarvedPayloadsLoop(b, cs, i, found, seen, maxFindings) ==
  IF i >= Len(cs)
  THEN found
  ELSE LET candidate == cs[i + 1]
           resolved == resolveCandidate(candidate, b, candidateOffsetsOf(cs))
           payload == makePayload(candidate, resolved)
       IN IF resolved.skip \/ payload.id \in seen
          THEN detectCarvedPayloadsLoop(b, cs, i + 1, found, seen, maxFindings)
          ELSE IF Len(found) + 1 >= maxFindings
          THEN Append(found, payload)
          ELSE detectCarvedPayloadsLoop(b, cs, i + 1, Append(found, payload),
                                        seen \cup {payload.id}, maxFindings)

detectCarvedPayloads(b, opts) ==
  IF Len(b) = 0 \/ maxFindingsOf(opts) = 0
  THEN <<>>
  ELSE detectCarvedPayloadsLoop(b, gatherCandidates(b), 0, <<>>, {}, maxFindingsOf(opts))

\* ------------------------------------------------------------------------
\* Typed arrays: a view is a window [byteOffset, byteOffset + length) on an
\* ArrayBuffer of the heap
\* ------------------------------------------------------------------------
NoView == [isNull |-> TRUE]

\* the Uint8Array over the whole file buffer that the caller hands over
FileView(b) == [buffer |-> "file", byteOffset |-> 0, length |-> Len(b)]

\* the bytes a view shows
ViewContents(h, view) ==
  [k \in 1..view.length |-> h[view.buffer][view.byteOffset + k]]

\* TypedArray.prototype.subarray(begin): a new view on the same ArrayBuffer
uint8ArraySubarray(h, view, begin) ==
  [heap |-> h,
   view |-> [buffer |-> view.buffer,
             byteOffset |-> view.byteOffset + begin,
             length |-> view.length - begin]]

\* TypedArray.prototype.slice(begin): a new ArrayBuffer holding a copy
uint8ArraySlice(h, view, begin) ==
  LET copied == [k \in 1..(view.length - begin) |->
                   h[view.buffer][view.byteOffset + begin + k]]
  IN [heap |-> [h EXCEPT !.result = copied],
      view |-> [buffer |-> "result", byteOffset |-> 0, length |-> Len(copied)]]

\* new Uint8Array(n) filled by the function that allocated it
newUint8Array(h, contents) ==
  [heap |-> [h EXCEPT !.result = contents],
   view |-> [buffer |-> "result", byteOffset |-> 0, length |-> Len(contents)]]

\* new Uint8Array(n) allocated by a second call while the first result is
\* still held: a buffer of its own
newUint8ArrayIn(h, buffer, contents) ==
  [heap |-> [h EXCEPT ![buffer] = contents],
   view |-> [buffer |-> buffer, byteOffset |-> 0, length |-> Len(contents)]]

\* ------------------------------------------------------------------------
\* Callers of extractTrailingData and of the detectors
\* ------------------------------------------------------------------------
ExtractTrailing ==
  /\ pc = "start"
  /\ trailing' = extractTrailingData(bytes, format)
  /\ IF trailing' = NoTrailingData
     THEN UNCHANGED heapVars
     ELSE LET sliced == uint8ArraySlice(heap, FileView(bytes), trailing'.containerEndOffset)
          IN /\ heap' = sliced.heap
             /\ resultView' = sliced.view
  /\ pc' = "done"
  /\ UNCHANGED <<bytes, options, format, layout, candidates, index, matches, dedupe,
                 hostEnd, generalEnd>>
  /\ UNCHANGED <<bitPlaneVars, detectorVars>>
  /\ UNCHANGED shellVars

\* the host detector of the declared format
DetectHost ==
  /\ pc = "start"
  /\ hostEnd = NotRun
  /\ hostEnd' = findContainerEndOffset(bytes, format)
  /\ UNCHANGED <<bytes, options, format, layout, pc, candidates, index, matches,
                 dedupe, trailing, generalEnd>>
  /\ UNCHANGED <<bitPlaneVars, detectorVars, heapVars>>
  /\ UNCHANGED shellVars

\* the catalog's detector of the same format, at start offset 0
DetectGeneral ==
  /\ pc = "start"
  /\ generalEnd = NotRun
  /\ generalEnd' = IF format = "image/png"
                   THEN findPngEnd(bytes, 0)
                   ELSE findJpegEnd(bytes, 0)
  /\ UNCHANGED <<bytes, options, format, layout, pc, candidates, index, matches,
                 dedupe, trailing, hostEnd>>
  /\ UNCHANGED <<bitPlaneVars, detectorVars, heapVars>>
  /\ UNCHANGED shellVars

\* ------------------------------------------------------------------------
\* The state of the operations a caller is not using
\* ------------------------------------------------------------------------
NoStream == [isNull |-> TRUE]

BitPlaneIdle ==
  /\ imageData = [width |-> 0, height |-> 0, data |-> <<>>]
  /\ planes = <<>>
  /\ extraction = [scanOrder |-> "row-major", channelOrder |-> "rgba",
                   bitOrder |-> "lsb-to-msb", bytePackOrder |-> "msb-first"]
  /\ maxBytes = 0
  /\ stream = NoStream

DetectorIdle ==
  /\ detectorKind = "png"
  /\ detectorStart = 0
  /\ detectorEnd = NotRun
  /\ variantEnd = NotRun

\* before a call: the file's and the pixels' buffers hold the inputs and no
\* result has been allocated
HeapFresh ==
  /\ heap = [file |-> bytes, pixels |-> imageData.data, result |-> <<>>,
            scan |-> <<>>]
  /\ resultView = NoView

\* extractBitPlaneStream has not been called with a second budget
NoScan == [notRun |-> TRUE]

ScanIdle ==
  /\ scanMaxBytes = 0
  /\ scanStream = NoScan

\* no detector is being stepped through
WalkIdle ==
  walk = [fn |-> "png", loop |-> "idle", start |-> 0, offset |-> 0, outer |-> 0,
          lastEofOffset |-> -1, result |-> NotRun]

\* decodeImageFile has not been called
DecodeFresh ==
  [pc |-> "idle", format |-> "none", exif |-> "null", exifRead |-> "notRun",
   sourceBytes |-> FALSE, bytesRead |-> "notRun", frameCount |-> 0,
   frameIndex |-> 0, frames |-> 0, bitmap |-> "notRun", bitmapRetried |-> FALSE,
   element |-> "notRun",
   imageData |-> "none", trailingData |-> "null", trailingRead |-> "notRun"]

DecodeIdle ==
  /\ decode = DecodeFresh
  /\ resources = <<>>

\* registerServiceWorker has not been called
WorkerFresh ==
  [pc |-> "idle", hasWindow |-> TRUE, hasDocument |-> TRUE,
   hasServiceWorker |-> TRUE, readyState |-> "loading",
   readyStateAtCall |-> "none", listeners |-> <<>>, listenersAdded |-> 0,
   registerCalls |-> 0, loadEvents |-> 0, loadEventsSinceCall |-> 0]

WorkerIdle == worker = WorkerFresh

\* no file has been handed to the application
AppIdle ==
  /\ app = [decoded |-> Null, error |-> Null, isLoading |-> FALSE,
            cleared |-> FALSE]
  /\ loads = <<>>

ShellIdle == ScanIdle /\ WalkIdle /\ DecodeIdle /\ WorkerIdle /\ AppIdle

\* ------------------------------------------------------------------------
\* Input buffers
\* ------------------------------------------------------------------------
\* n bytes of value v
Fill(n, v) == [k \in 1..n |-> v]

\* every concatenation of at most n members of frags
RECURSIVE Concatenations(_, _)
Concatenations(frags, n) ==
  IF n = 0
  THEN {<<>>}
  ELSE LET shorter == Concatenations(frags, n - 1) IN
       shorter \cup {b \o f : b \in shorter, f \in frags}

\* b repeated n times
RECURSIVE Repeat(_, _)
Repeat(b, n) == IF n = 0 THEN <<>> ELSE b \o Repeat(b, n - 1)

IEND_CHUNK == <<0, 0, 0, 0, 73, 69, 78, 68, 174, 66, 96, 130>>
JPEG_HEAD == <<255, 216, 255, 224, 0, 4, 17, 34>>   \* SOI, APP0 of length 4
JPEG_EOI == <<255, 217>>
GIF_FILE == GIF89A_SIGNATURE \o Fill(7, 0) \o <<59>>
WEBP_FILE == RIFF_SIGNATURE \o <<4, 0, 0, 0>> \o WEBP_SIGNATURE
BMP_FILE == <<66, 77, 26, 0, 0, 0>> \o Fill(20, 0)
PDF_EOF_LINE == PDF_EOF_MARKER \o <<10>>
PDF_FILE == PDF_SIGNATURE \o PDF_EOF_LINE
ZIP_EOCD == ZIP_EOCD_SIGNATURE \o Fill(18, 0)
MANY_BMP == Repeat(<<66, 77>>, DEFAULT_MAX_FINDINGS + 1)

\* pieces of the eight formats, whole and broken, and filler
CarveFragments ==
  { PNG_SIGNATURE, IEND_CHUNK, JPEG_HEAD, JPEG_EOI, GIF_FILE, WEBP_FILE,
    BMP_FILE, TIFF_LE_SIGNATURE, PDF_FILE, ZIP_LOCAL_FILE_SIGNATURE,
    ZIP_EOCD, <<0>>, MANY_BMP }

MaxFrags == 3

CarveBuffers == Concatenations(CarveFragments, MaxFrags)

\* maxFindings omitted, negative, zero, and small positive values
CarveOptions == {<<>>, <<-1>>, <<0>>, <<2>>}

\* ------------------------------------------------------------------------
\* detectCarvedPayloads on every buffer of CarveBuffers
\* ------------------------------------------------------------------------
Init ==
  /\ bytes \in CarveBuffers
  /\ options \in CarveOptions
  /\ format = "image/png"
  /\ layout = <<bytes>>
  /\ pc = "start"
  /\ candidates = <<>>
  /\ index = 0
  /\ matches = <<>>
  /\ dedupe = {}
  /\ trailing = NoTrailingData
  /\ hostEnd = NotRun
  /\ generalEnd = NotRun
  /\ BitPlaneIdle
  /\ DetectorIdle
  /\ HeapFresh
  /\ ShellIdle

Next == CarveBegin \/ CarveStep \/ CarveReturn

Spec == Init /\ [][Next]_vars

TypeOK ==
  /\ pc \in {"start", "loop", "done"}
  /\ index \in 0..Len(candidates)
  /\ Len(matches) <= Len(candidates)

\* ------------------------------------------------------------------------
\* Properties of detectCarvedPayloads
\* ------------------------------------------------------------------------
\* the call has returned matches
Returned == pc = "done"

Payloads == {matches[k] : k \in 1..Len(matches)}

\* the start offsets at which some catalog signature matches
SignatureOffsets(b) ==
  {o \in 0..(Len(b) - 1) : \E k \in 1..Len(SIGNATURE_SPECS) :
                             matchAt(SIGNATURE_SPECS[k], b, o)}

\* the detector of payload p's format gives a usable end
DetectorSucceeds(p) ==
  LET e == findEnd(p.kind, bytes, p.startOffset) IN
  e # Null /\ p.startOffset < e /\ e <= Len(bytes)

\* C1: every payload returned by detectCarvedPayloads satisfies
\* 0 <= startOffset < endOffset <= buffer length and
\* byteLength = endOffset - startOffset.
C1_PayloadSpan ==
  \A p \in Payloads :
    /\ 0 <= p.startOffset
    /\ p.startOffset < p.endOffset
    /\ p.endOffset <= Len(bytes)
    /\ p.byteLength = p.endOffset - p.startOffset

\* a call returned a payload that ends inside the buffer and one that ends
\* at the end of the buffer
C1_Witness ==
  /\ Returned
  /\ \E p \in Payloads : p.endOffset < Len(bytes) /\ p.startOffset > 0
  /\ \E p \in Payloads : p.endOffset = Len(bytes)

\* C2: a returned payload whose detector gives an end e with
\* start < e <= buffer length ends at e with confidence high (medium for
\* pdf); a payload whose detector fails has confidence low; a tiff payload
\* always has confidence low.
C2_Confidence ==
  Returned =>
    \A p \in Payloads :
      /\ IF DetectorSucceeds(p)
         THEN /\ p.endOffset = findEnd(p.kind, bytes, p.startOffset)
              /\ p.confidence = (IF p.kind = "pdf" THEN "medium" ELSE "high")
         ELSE p.confidence = "low"
      /\ p.kind = "tiff" => p.confidence = "low"

\* one call returned a high, a medium (pdf) and a low (tiff) payload
C2_Witness ==
  /\ Returned
  /\ \E p \in Payloads : p.confidence = "high" /\ DetectorSucceeds(p)
  /\ \E p \in Payloads : p.kind = "pdf" /\ p.confidence = "medium"
  /\ \E p \in Payloads : p.kind = "tiff" /\ p.confidence = "low"

\* C3: a returned payload whose detector fails ends at the smallest
\* signature offset strictly greater than its start, or at the buffer length
\* when there is none.
C3_FallbackEnd ==
  Returned =>
    \A p \in Payloads :
      ~DetectorSucceeds(p) =>
        LET later == {o \in SignatureOffsets(bytes) : o > p.startOffset} IN
        IF later = {}
        THEN p.endOffset = Len(bytes)
        ELSE /\ p.endOffset \in later
             /\ \A o \in later : p.endOffset <= o

\* a failed candidate was cut at the next of at least two later signatures,
\* and another at the end of the buffer
C3_Witness ==
  /\ Returned
  /\ \E p \in Payloads :
       /\ ~DetectorSucceeds(p)
       /\ Cardinality({o \in SignatureOffsets(bytes) : o > p.startOffset}) >= 2
  /\ \E p \in Payloads :
       /\ ~DetectorSucceeds(p)
       /\ {o \in SignatureOffsets(bytes) : o > p.startOffset} = {}

\* C4: detectCarvedPayloads returns at most maxFindings payloads (24 when
\* the option is omitted), and none for an empty buffer or maxFindings <= 0.
C4_MaxFindings ==
  LET limit == IF options = <<>> THEN 24 ELSE options[1] IN
  /\ limit > 0 => Len(matches) <= limit
  /\ limit <= 0 => matches = <<>>
  /\ Len(bytes) = 0 => matches = <<>>

\* a call without the option stopped at 24 payloads with signatures left over
C4_Witness ==
  /\ Returned
  /\ options = <<>>
  /\ Len(matches) = 24
  /\ Cardinality(SignatureOffsets(bytes)) > 24

\* C5: the returned payloads are in ascending order of startOffset and no
\* two of them have the same (kind, startOffset, endOffset).
C5_Ordered ==
  \A i, j \in 1..Len(matches) :
    i < j =>
      /\ matches[i].startOffset <= matches[j].startOffset
      /\ <<matches[i].kind, matches[i].startOffset, matches[i].endOffset>>
           # <<matches[j].kind, matches[j].startOffset, matches[j].endOffset>>

\* a call returned three payloads of three kinds
C5_Witness ==
  /\ Returned
  /\ Len(matches) >= 3
  /\ Cardinality({p.kind : p \in Payloads}) >= 3


\* ------------------------------------------------------------------------
\* detectCarvedPayloads on a JPEG, three filler bytes and a ZIP
\* ------------------------------------------------------------------------
\* a 16-bit and a 32-bit little-endian field holding n < 256
Le16(n) == <<n, 0>>
Le32(n) == <<n, 0, 0, 0>>

\* a JPEG marker segment: FF, marker, big-endian length (it counts itself)
JpegSegment(marker, payload) == <<255, marker, 0, Len(payload) + 2>> \o payload

JPEG_SOI == <<255, 216>>

\* APP0 as in tests/payloadCarving.test.ts, APP0 holding "BM", APP1 holding
\* an embedded thumbnail's SOI..EOI
JpegHeaderSegments ==
  { JpegSegment(224, <<17, 34>>),
    JpegSegment(224, <<66, 77>>),
    JpegSegment(225, <<255, 216, 255, 217>>) }

\* no scan; or SOS and entropy-coded data: plain, with a stuffed FF 00, with
\* a restart marker, holding the bytes PK 03 04
JpegScans ==
  { <<>> } \cup
  { JpegSegment(218, <<0>>) \o data :
      data \in { <<1, 2>>, <<7, 255, 0, 3>>, <<7, 255, 208, 3>>, <<80, 75, 3, 4>> } }

ValidJpegs ==
  { JPEG_SOI \o seg \o scan \o JPEG_EOI : seg \in JpegHeaderSegments, scan \in JpegScans }

\* a stored (uncompressed) ZIP entry's local file header and data
ZipLocalFile(name, data) ==
  ZIP_LOCAL_FILE_SIGNATURE \o <<20, 0>> \o Fill(8, 0) \o Fill(4, 0)
    \o Le32(Len(data)) \o Le32(Len(data)) \o Le16(Len(name)) \o Le16(0)
    \o name \o data

\* the entry's central directory header
ZipCentralHeader(name, data, localOffset) ==
  <<80, 75, 1, 2>> \o <<20, 0, 20, 0>> \o Fill(8, 0) \o Fill(4, 0)
    \o Le32(Len(data)) \o Le32(Len(data)) \o Le16(Len(name)) \o Le16(0)
    \o Le16(0) \o Le16(0) \o Le16(0) \o Le32(0) \o Le32(localOffset) \o name

\* the end-of-central-directory record
ZipEocdRecord(entries, cdSize, cdOffset, comment) ==
  ZIP_EOCD_SIGNATURE \o Le16(0) \o Le16(0) \o Le16(entries) \o Le16(entries)
    \o Le32(cdSize) \o Le32(cdOffset) \o Le16(Len(comment)) \o comment

\* a ZIP archive of the given entries (<<name, data>> pairs), with a comment;
\* eocd is the offset of its EOCD record
RECURSIVE ZipLocals(_)
ZipLocals(entries) ==
  IF entries = <<>>
  THEN <<>>
  ELSE ZipLocalFile(entries[1][1], entries[1][2]) \o ZipLocals(Tail(entries))

RECURSIVE ZipCentral(_, _)
ZipCentral(entries, localOffset) ==
  IF entries = <<>>
  THEN <<>>
  ELSE ZipCentralHeader(entries[1][1], entries[1][2], localOffset)
         \o ZipCentral(Tail(entries),
                       localOffset + Len(ZipLocalFile(entries[1][1], entries[1][2])))

ZipArchive(entries, comment) ==
  LET locals == ZipLocals(entries)
      central == ZipCentral(entries, 0)
  IN [bytes |-> locals \o central
                  \o ZipEocdRecord(Len(entries), Len(central), Len(locals), comment),
      eocd |-> Len(locals) + Len(central)]

\* the archive of tests/payloadCarving.test.ts: a local header and an EOCD
TEST_ZIP ==
  [bytes |-> ZIP_LOCAL_FILE_SIGNATURE \o <<20, 0>> \o Fill(24, 0) \o ZIP_EOCD,
   eocd |-> 30]

ZipEntryData == { <<>>, <<66, 77>>, ZIP_EOCD }
ZipComments == { <<>>, <<104, 105>> }

\* one entry with empty data, data "BM", or data that reads as an EOCD
\* record; two entries; with and without an archive comment
ValidZips ==
  { ZipArchive(<< <<(<<97>>), data>> >>, comment) :
      data \in ZipEntryData, comment \in ZipComments }
  \cup { ZipArchive(<< <<(<<97>>), (<<>>)>>, <<(<<98>>), (<<>>)>> >>, <<>>) }
  \cup { TEST_ZIP }

FILLER_LENGTH == 3

\* the filler of the test, and every filler over 0x13, 'B', 'M'
Fillers ==
  { <<19, 55, 66>> } \cup
  { <<x, y, z>> : x \in {19, 66, 77}, y \in {19, 66, 77}, z \in {19, 66, 77} }

InitRoundTrip ==
  /\ \E j \in ValidJpegs, f \in Fillers, z \in ValidZips :
       /\ bytes = j \o f \o z.bytes
       /\ layout = [jpeg |-> j, filler |-> f, zip |-> z.bytes, eocd |-> z.eocd]
  /\ options = <<>>
  /\ format = "image/jpeg"
  /\ pc = "start"
  /\ candidates = <<>>
  /\ index = 0
  /\ matches = <<>>
  /\ dedupe = {}
  /\ trailing = NoTrailingData
  /\ hostEnd = NotRun
  /\ generalEnd = NotRun
  /\ BitPlaneIdle
  /\ DetectorIdle
  /\ HeapFresh
  /\ ShellIdle

SpecRoundTrip == InitRoundTrip /\ [][Next]_vars

\* exactly two payloads: the JPEG's bytes and the ZIP's bytes, both high
RoundTripResult ==
  /\ Len(matches) = 2
  /\ matches[1].kind = "jpeg"
  /\ matches[1].startOffset = 0
  /\ matches[1].endOffset = Len(layout.jpeg)
  /\ matches[1].confidence = "high"
  /\ matches[2].kind = "zip"
  /\ matches[2].startOffset = Len(layout.jpeg) + Len(layout.filler)
  /\ matches[2].endOffset = Len(bytes)
  /\ matches[2].confidence = "high"

\* C6 as stated: for every JPEG + 3 filler bytes + ZIP buffer the call
\* returns exactly the JPEG and the ZIP payload, both with confidence high.
C6_RoundTripEveryBuffer == Returned => RoundTripResult

\* the catalog's signatures match only at the JPEG's SOI and at the ZIP's
\* first local file header
OnlyTwoSignatures ==
  SignatureOffsets(bytes) = {0, Len(layout.jpeg) + Len(layout.filler)}

\* the EOCD signature occurs in the ZIP only at its EOCD record and after
NoEarlierEocd ==
  \A o \in 0..(layout.eocd - 1) : ~matchesAt(layout.zip, o, ZIP_EOCD_SIGNATURE)

\* C6 (amended): when the buffer's only signature matches are the JPEG's SOI
\* and the ZIP's first local file header and no EOCD signature precedes the
\* ZIP's EOCD record, the call returns exactly the JPEG and the ZIP payload,
\* each spanning exactly its bytes, both with confidence high.
C6_RoundTrip ==
  (Returned /\ OnlyTwoSignatures /\ NoEarlierEocd) => RoundTripResult

\* such a buffer was carved: a JPEG with entropy-coded data, and a ZIP with
\* a central directory and an archive comment
C6_Witness ==
  /\ Returned
  /\ OnlyTwoSignatures
  /\ NoEarlierEocd
  /\ Len(layout.filler) = FILLER_LENGTH
  /\ Len(layout.jpeg) > 10
  /\ layout.eocd > 30
  /\ Len(layout.zip) > layout.eocd + 22
  /\ Len(matches) = 2

\* ------------------------------------------------------------------------
\* extractTrailingData on files with and without appended bytes
\* ------------------------------------------------------------------------
\* a 32-bit big-endian field holding n < 256
Be32(n) == <<0, 0, 0, n>>

\* a PNG chunk: length, type, data, CRC (the parsers never read the CRC)
PngChunk(type, data) == Be32(Len(data)) \o type \o data \o <<0, 0, 0, 0>>

PNG_IHDR == PngChunk(<<73, 72, 68, 82>>, <<0, 0, 0, 1, 0, 0, 0, 1, 8, 2, 0, 0, 0>>)

\* nothing between IHDR and IEND; an IDAT; an IDAT whose data is the text
\* IEND; a tEXt chunk whose data is a whole IEND chunk
PngMiddles ==
  { <<>>,
    PngChunk(<<73, 68, 65, 84>>, <<1, 2, 3>>),
    PngChunk(<<73, 68, 65, 84>>, <<73, 69, 78, 68>>),
    PngChunk(<<116, 69, 88, 116>>, IEND_CHUNK) }

WellFormedPngs == { PNG_SIGNATURE \o PNG_IHDR \o mid \o IEND_CHUNK : mid \in PngMiddles }

MaxTrailing == 2

\* 0x00, 'I', 0xD9, 0xFF
TrailingAlphabet == {0, 73, 217, 255}

RECURSIVE ByteStrings(_, _)
ByteStrings(alphabet, n) ==
  IF n = 0
  THEN {<<>>}
  ELSE LET shorter == ByteStrings(alphabet, n - 1) IN
       shorter \cup {Append(b, x) : b \in shorter, x \in alphabet}

AppendedBytes == ByteStrings(TrailingAlphabet, MaxTrailing)

\* files that are neither: the malformed source of tests/trailingData.test.ts,
\* the empty file, truncated and oversized PNG chunks, JPEGs cut short
MalformedFiles ==
  { <<1, 2, 3, 4>>,
    <<>>,
    PNG_SIGNATURE,
    PNG_SIGNATURE \o PNG_IHDR,
    PNG_SIGNATURE \o <<255, 255, 255, 255>> \o SubSeq(IEND_CHUNK, 5, 12),
    PNG_SIGNATURE \o <<0, 0, 0, 9>> \o SubSeq(IEND_CHUNK, 5, 12),
    <<255, 216, 255>>,
    JPEG_HEAD,
    <<255, 216, 255, 224, 0, 9, 255, 217>>,
    <<255, 216, 255, 224, 0, 1, 255, 217>> }

InitTrailing ==
  /\ \/ \E p \in WellFormedPngs, t \in AppendedBytes :
          /\ bytes = p \o t
          /\ layout = [wellFormed |-> "image/png", container |-> p, appended |-> t]
     \/ \E j \in ValidJpegs, t \in AppendedBytes :
          /\ bytes = j \o t
          /\ layout = [wellFormed |-> "image/jpeg", container |-> j, appended |-> t]
     \/ \E m \in MalformedFiles :
          /\ bytes = m
          /\ layout = [wellFormed |-> "none", container |-> <<>>, appended |-> m]
  /\ format \in SupportedImageFormat
  /\ options = <<>>
  /\ pc = "start"
  /\ candidates = <<>>
  /\ index = 0
  /\ matches = <<>>
  /\ dedupe = {}
  /\ trailing = NoTrailingData
  /\ hostEnd = NotRun
  /\ generalEnd = NotRun
  /\ BitPlaneIdle
  /\ DetectorIdle
  /\ HeapFresh
  /\ ShellIdle

NextTrailing == ExtractTrailing

SpecTrailing == InitTrailing /\ [][NextTrailing]_vars

\* C7: for a well-formed PNG (or JPEG) P declared as such and appended bytes
\* T, extractTrailingData(P followed by T) is null when T is empty and
\* otherwise has containerEndOffset = length of P, byteLength = length of T
\* and bytes = T.
C7_AppendedBytes ==
  (Returned /\ layout.wellFormed = format) =>
    IF layout.appended = <<>>
    THEN trailing = NoTrailingData
    ELSE /\ ~trailing.isNull
         /\ trailing.containerEndOffset = Len(layout.container)
         /\ trailing.byteLength = Len(layout.appended)
         /\ trailing.bytes = layout.appended

\* two bytes appended to a PNG with a chunk between IHDR and IEND were found
C7_Witness ==
  /\ Returned
  /\ layout.wellFormed = "image/png"
  /\ format = "image/png"
  /\ Len(layout.container) > Len(PNG_SIGNATURE \o PNG_IHDR \o IEND_CHUNK)
  /\ Len(layout.appended) = 2
  /\ ~trailing.isNull

\* the end the host detector of the declared format finds, if any
HostEndOf(b, fmt) ==
  CASE fmt = "image/png" -> findPngContainerEnd(b)
    [] fmt = "image/jpeg" -> findJpegContainerEnd(b)
    [] OTHER -> Null

\* C8: extractTrailingData returns a TrailingData exactly when the declared
\* format is PNG or JPEG and its host detector finds an end e < buffer
\* length, and then containerEndOffset = e, byteLength = length - e and bytes
\* is the suffix from e; otherwise it returns null.
C8_ExactlyWhen ==
  Returned =>
    LET e == HostEndOf(bytes, format) IN
    IF format \in {"image/png", "image/jpeg"} /\ e # Null /\ e < Len(bytes)
    THEN /\ ~trailing.isNull
         /\ trailing.containerEndOffset = e
         /\ trailing.byteLength = Len(bytes) - e
         /\ trailing.bytes = SubSeq(bytes, e + 1, Len(bytes))
    ELSE trailing = NoTrailingData

\* a JPEG with appended bytes gave a TrailingData
C8_Witness ==
  /\ Returned
  /\ format = "image/jpeg"
  /\ HostEndOf(bytes, format) # Null
  /\ HostEndOf(bytes, format) < Len(bytes)
  /\ ~trailing.isNull

\* ------------------------------------------------------------------------
\* Host detectors against the catalog's detectors
\* ------------------------------------------------------------------------
MaxJpegLen == 5

\* 0xFF, SOI, EOI, the stuffing byte / length high byte, a marker with a
\* length field / length low byte
JpegAlphabet == {255, 216, 217, 0, 3}

JpegByteBuffers == ByteStrings(JpegAlphabet, MaxJpegLen)

MaxPngFrags == 4

\* the signature, whole chunks, a length of 2^32 - 1, a length with only the
\* high bit set, a length of 1, the type IEND, one byte
PngFragments ==
  { PNG_SIGNATURE, IEND_CHUNK, PngChunk(<<73, 68, 65, 84>>, <<>>),
    <<255, 255, 255, 255>>, <<128, 0, 0, 0>>, Be32(1), <<73, 69, 78, 68>>, <<0>> }

PngFragmentBuffers == Concatenations(PngFragments, MaxPngFrags)

InitHost ==
  /\ \/ format = "image/jpeg" /\ bytes \in JpegByteBuffers
     \/ format = "image/png" /\ bytes \in PngFragmentBuffers
  /\ layout = <<bytes>>
  /\ options = <<>>
  /\ pc = "start"
  /\ candidates = <<>>
  /\ index = 0
  /\ matches = <<>>
  /\ dedupe = {}
  /\ trailing = NoTrailingData
  /\ hostEnd = NotRun
  /\ generalEnd = NotRun
  /\ BitPlaneIdle
  /\ DetectorIdle
  /\ HeapFresh
  /\ ShellIdle

NextHost == DetectHost \/ DetectGeneral

SpecHost == InitHost /\ [][NextHost]_vars

BothDetectorsRan == hostEnd # NotRun /\ generalEnd # NotRun

\* C9: findJpegContainerEnd(bytes) and findJpegEnd(bytes, 0) return the same
\* result for every buffer.
C9_JpegHostAgrees ==
  (BothDetectorsRan /\ format = "image/jpeg") => hostEnd = generalEnd

\* C10: findPngContainerEnd(bytes) and findPngEnd(bytes, 0) return the same
\* result for every buffer.
C10_PngHostAgrees ==
  (BothDetectorsRan /\ format = "image/png") => hostEnd = generalEnd

\* both detectors walked over a chunk and returned the end of the IEND chunk
C10_Witness ==
  /\ BothDetectorsRan
  /\ format = "image/png"
  /\ hostEnd = generalEnd
  /\ hostEnd = Len(bytes)
  /\ hostEnd >= Len(PNG_SIGNATURE) + 24

\* ------------------------------------------------------------------------
\* src/unnamed/part_016: the bit-plane catalog and extractBitPlaneStream
\* ------------------------------------------------------------------------
CHANNELS ==
  << [key |-> "r", label |-> "Red", offset |-> 0],
     [key |-> "g", label |-> "Green", offset |-> 1],
     [key |-> "b", label |-> "Blue", offset |-> 2],
     [key |-> "a", label |-> "Alpha", offset |-> 3] >>

CHANNEL_ORDER_MAP ==
  [rgba |-> <<"r", "g", "b", "a">>,
   bgra |-> <<"b", "g", "r", "a">>,
   argb |-> <<"a", "r", "g", "b">>,
   abgr |-> <<"a", "b", "g", "r">>]

BIT_ORDER_MAP ==
  ("lsb-to-msb" :> <<1, 2, 3, 4, 5, 6, 7, 8>>)
    @@ ("msb-to-lsb" :> <<8, 7, 6, 5, 4, 3, 2, 1>>)

\* the template string `${key}-${bitPosition}`: the pair it is built from
planeId(key, bitPosition) == <<key, bitPosition>>

\* one PlaneSpec of buildPlaneSpecs
planeSpec(channel, bitPosition) ==
  [id |-> planeId(channel.key, bitPosition),
   channel |-> channel.key,
   channelLabel |-> channel.label,
   channelOffset |-> channel.offset,
   bitPosition |-> bitPosition,
   bitMask |-> Pow2(bitPosition - 1),
   label |-> <<channel.label, bitPosition>>]

\* channels outermost, bit positions 1..8 innermost
buildPlaneSpecs ==
  [n \in 1..32 |-> planeSpec(CHANNELS[((n - 1) \div 8) + 1], ((n - 1) % 8) + 1)]

\* a & b on bytes
RECURSIVE bitAnd(_, _)
bitAnd(a, b) ==
  IF a = 0 \/ b = 0
  THEN 0
  ELSE (a % 2) * (b % 2) + 2 * bitAnd(a \div 2, b \div 2)

\* a | b on bytes
RECURSIVE bitOr(_, _)
bitOr(a, b) ==
  IF a = 0 /\ b = 0
  THEN 0
  ELSE (IF a % 2 = 1 \/ b % 2 = 1 THEN 1 ELSE 0) + 2 * bitOr(a \div 2, b \div 2)

\* selectedPlaneLookup.get(id): Map.set keeps the last plane set under an id;
\* <<>> is undefined, <<plane>> is a plane
selectedPlaneLookup(selected, id) ==
  LET hits == {i \in 1..Len(selected) : selected[i].id = id} IN
  IF hits = {}
  THEN <<>>
  ELSE <<selected[CHOOSE i \in hits : \A j \in hits : j <= i]>>

\* orderSelectedPlanes dropping the plane at bit position 8 of each channel
orderSelectedPlanesSevenBits(selected, opts) ==
  LET channelOrder == CHANNEL_ORDER_MAP[opts.channelOrder]
      bitOrder == BIT_ORDER_MAP[opts.bitOrder]
      keys == [n \in 1..32 |->
                 planeId(channelOrder[((n - 1) \div 8) + 1], bitOrder[((n - 1) % 8) + 1])]
      isSelected(id) == id[2] < 8 /\ selectedPlaneLookup(selected, id) # <<>>
      kept == SelectSeq(keys, isSelected)
  IN [n \in 1..Len(kept) |-> selectedPlaneLookup(selected, kept[n])[1]]

\* lines 97-116
orderSelectedPlanes(selected, opts) ==
  LET channelOrder == CHANNEL_ORDER_MAP[opts.channelOrder]
      bitOrder == BIT_ORDER_MAP[opts.bitOrder]
      \* the ids looked up, in the order of the two nested loops
      keys == [n \in 1..32 |->
                 planeId(channelOrder[((n - 1) \div 8) + 1], bitOrder[((n - 1) % 8) + 1])]
      isSelected(id) == selectedPlaneLookup(selected, id) # <<>>
      kept == SelectSeq(keys, isSelected)
  IN [n \in 1..Len(kept) |-> selectedPlaneLookup(selected, kept[n])[1]]

\* Math.ceil(totalBits / 8) rounding down instead
totalBytesOfFloor(totalBits) == totalBits \div 8

\* line 134: Math.ceil(totalBits / 8), totalBits >= 0
totalBytesOf(totalBits) == (totalBits + 7) \div 8

\* lines 135-136
bytesToPackOf(totalBytes, budget) == Min(totalBytes, Max(0, budget))

\* bitPositionInByte ignoring bytePackOrder
bitPositionInByteLsbOnly(opts, emittedBits) == emittedBits % 8

\* lines 156-157: emittedBits & 0b111 is emittedBits mod 8
bitPositionInByte(opts, emittedBits) ==
  IF opts.bytePackOrder = "msb-first"
  THEN 7 - (emittedBits % 8)
  ELSE emittedBits % 8

\* lines 148-164: processPixel from the i-th ordered plane on; packed is the
\* closure's view of bytes and emittedBits
RECURSIVE processPixelFrom(_, _, _, _, _, _, _)
processPixelFrom(source, pixelStartIndex, orderedPlanes, i, opts, bitsToPack, packed) ==
  IF i > Len(orderedPlanes)
  THEN [bytes |-> packed.bytes, emittedBits |-> packed.emittedBits,
        stop |-> packed.emittedBits >= bitsToPack]
  ELSE IF packed.emittedBits >= bitsToPack
  THEN [bytes |-> packed.bytes, emittedBits |-> packed.emittedBits, stop |-> TRUE]
  ELSE LET plane == orderedPlanes[i]
           planeBitIsSet ==
             bitAnd(U8(source, pixelStartIndex + plane.channelOffset), plane.bitMask) # 0
           byteIndex == packed.emittedBits \div 8
           written ==
             IF planeBitIsSet
             THEN [packed.bytes EXCEPT ![byteIndex + 1] =
                     bitOr(@, Pow2(bitPositionInByte(opts, packed.emittedBits)))]
             ELSE packed.bytes
       IN processPixelFrom(source, pixelStartIndex, orderedPlanes, i + 1, opts, bitsToPack,
                           [bytes |-> written, emittedBits |-> packed.emittedBits + 1])

\* processPixel that leaves out a pixel whose bits do not all fit the budget
processPixelWhole(source, pixelStartIndex, orderedPlanes, opts, bitsToPack, packed) ==
  IF packed.emittedBits + Len(orderedPlanes) > bitsToPack
  THEN [bytes |-> packed.bytes, emittedBits |-> packed.emittedBits, stop |-> TRUE]
  ELSE processPixelFrom(source, pixelStartIndex, orderedPlanes, 1, opts, bitsToPack, packed)

processPixel(source, pixelStartIndex, orderedPlanes, opts, bitsToPack, packed) ==
  processPixelFrom(source, pixelStartIndex, orderedPlanes, 1, opts, bitsToPack, packed)

\* lines 168-175: y outermost, x innermost
RECURSIVE scanRowMajor(_, _, _, _, _, _, _)
scanRowMajor(img, orderedPlanes, opts, bitsToPack, y, x, packed) ==
  IF y >= img.height
  THEN packed
  ELSE IF x >= img.width
  THEN scanRowMajor(img, orderedPlanes, opts, bitsToPack, y + 1, 0, packed)
  ELSE LET r == processPixel(img.data, (y * img.width + x) * 4, orderedPlanes, opts,
                             bitsToPack, packed)
       IN IF r.stop
          THEN r
          ELSE scanRowMajor(img, orderedPlanes, opts, bitsToPack, y, x + 1, r)

\* lines 177-184: x outermost, y innermost
RECURSIVE scanColumnMajor(_, _, _, _, _, _, _)
scanColumnMajor(img, orderedPlanes, opts, bitsToPack, x, y, packed) ==
  IF x >= img.width
  THEN packed
  ELSE IF y >= img.height
  THEN scanColumnMajor(img, orderedPlanes, opts, bitsToPack, x + 1, 0, packed)
  ELSE LET r == processPixel(img.data, (y * img.width + x) * 4, orderedPlanes, opts,
                             bitsToPack, packed)
       IN IF r.stop
          THEN r
          ELSE scanColumnMajor(img, orderedPlanes, opts, bitsToPack, x, y + 1, r)

\* lines 125-188
extractBitPlaneStream(img, selected, opts, budget) ==
  LET orderedPlanes == orderSelectedPlanes(selected, opts)
      bitsPerPixel == Len(orderedPlanes)
      totalBits == img.width * img.height * bitsPerPixel
      totalBytes == totalBytesOf(totalBits)
      bytesToPack == bytesToPackOf(totalBytes, budget)
      zeroed == [k \in 1..bytesToPack |-> 0]
      bitsToPack == Min(totalBits, bytesToPack * 8)
      start == [bytes |-> zeroed, emittedBits |-> 0]
      packed ==
        IF bitsPerPixel = 0 \/ bytesToPack = 0 \/ totalBits = 0
        THEN start
        ELSE IF opts.scanOrder = "row-major"
        THEN scanRowMajor(img, orderedPlanes, opts, bitsToPack, 0, 0, start)
        ELSE scanColumnMajor(img, orderedPlanes, opts, bitsToPack, 0, 0, start)
  IN [bytes |-> packed.bytes, totalBits |-> totalBits, totalBytes |-> totalBytes,
      bitsPerPixel |-> bitsPerPixel]

\* a caller of extractBitPlaneStream
ExtractStream ==
  /\ pc = "start"
  /\ stream' = extractBitPlaneStream(imageData, planes, extraction, maxBytes)
  /\ LET packed == newUint8Array(heap, stream'.bytes)
     IN /\ heap' = packed.heap
        /\ resultView' = packed.view
  /\ pc' = "done"
  /\ UNCHANGED <<bytes, options, format, layout, candidates, index, matches, dedupe,
                 trailing, hostEnd, generalEnd>>
  /\ UNCHANGED <<imageData, planes, extraction, maxBytes>>
  /\ UNCHANGED detectorVars
  /\ UNCHANGED shellVars

\* ------------------------------------------------------------------------
\* extractBitPlaneStream on small images, selections, options and budgets
\* ------------------------------------------------------------------------
\* the carving and trailing-data state of a caller that uses neither
CarveIdle ==
  /\ bytes = <<>>
  /\ options = <<>>
  /\ format = "image/png"
  /\ layout = <<>>
  /\ candidates = <<>>
  /\ index = 0
  /\ matches = <<>>
  /\ dedupe = {}
  /\ trailing = NoTrailingData
  /\ hostEnd = NotRun
  /\ generalEnd = NotRun

MaxSide == 2

\* RGBA bytes of nine pixels: the three pixels of tests/bitPlane.test.ts,
\* then pixels with high and low bits set in every channel
PIXEL_BYTES ==
  << 1, 0, 1, 255,     0, 1, 0, 255,     1, 1, 1, 255,
     128, 2, 129, 1,   0, 130, 3, 128,   129, 0, 2, 0,
     255, 255, 0, 1,   2, 129, 128, 129, 0, 0, 1, 0 >>

PixelData(n) ==
  [i \in 1..n |-> IF i <= Len(PIXEL_BYTES) THEN PIXEL_BYTES[i] ELSE (i * 37) % 256]

\* an ImageData holds 4 * width * height bytes
Images ==
  { [width |-> w, height |-> h, data |-> PixelData(4 * w * h)] :
      w \in 0..MaxSide, h \in 0..MaxSide }

MaxPlanes == 3

CatalogPlane(key, bitPosition) ==
  buildPlaneSpecs[CHOOSE n \in 1..32 : buildPlaneSpecs[n].id = planeId(key, bitPosition)]

\* planes of the catalog: two of one channel, and one of two others
PlaneChoices ==
  { CatalogPlane("r", 1), CatalogPlane("r", 8), CatalogPlane("g", 2), CatalogPlane("a", 1) }

RECURSIVE ListsOver(_, _)
ListsOver(S, n) ==
  IF n = 0
  THEN { <<>> }
  ELSE LET shorter == ListsOver(S, n - 1) IN
       shorter \cup { Append(l, e) : l \in shorter, e \in S }

\* every list of at most MaxPlanes planes, repeats included
PlaneSelections == ListsOver(PlaneChoices, MaxPlanes)

ExtractionOptions ==
  [scanOrder : {"row-major", "column-major"},
   channelOrder : {"rgba", "bgra", "argb", "abgr"},
   bitOrder : {"lsb-to-msb", "msb-to-lsb"},
   bytePackOrder : {"msb-first", "lsb-first"}]

\* negative, zero, one byte, and enough for every image of side MaxSide
Budgets == {-1, 0, 1, 4}

InitBitPlane ==
  /\ CarveIdle
  /\ DetectorIdle
  /\ pc = "start"
  /\ imageData \in Images
  /\ planes \in PlaneSelections
  /\ extraction \in ExtractionOptions
  /\ maxBytes \in Budgets
  /\ stream = NoStream
  /\ HeapFresh
  /\ ShellIdle

NextBitPlane == ExtractStream

SpecBitPlane == InitBitPlane /\ [][NextBitPlane]_vars

\* ------------------------------------------------------------------------
\* Properties of extractBitPlaneStream
\* ------------------------------------------------------------------------
\* the call has returned stream
StreamReturned == pc = "done" /\ stream # NoStream

\* the planes of the selection, each counted once
SelectedIds == {planes[i].id : i \in 1..Len(planes)}

\* position of a channel in the order an option value spells out
ChannelRank(order, key) ==
  CASE order = "rgba" -> (CASE key = "r" -> 0 [] key = "g" -> 1 [] key = "b" -> 2 [] key = "a" -> 3)
    [] order = "bgra" -> (CASE key = "b" -> 0 [] key = "g" -> 1 [] key = "r" -> 2 [] key = "a" -> 3)
    [] order = "argb" -> (CASE key = "a" -> 0 [] key = "r" -> 1 [] key = "g" -> 2 [] key = "b" -> 3)
    [] order = "abgr" -> (CASE key = "a" -> 0 [] key = "b" -> 1 [] key = "g" -> 2 [] key = "r" -> 3)

\* canonical order: channels in channelOrder, then bit positions in bitOrder
CanonicalRank(id) ==
  8 * ChannelRank(extraction.channelOrder, id[1])
    + (IF extraction.bitOrder = "lsb-to-msb" THEN id[2] - 1 ELSE 8 - id[2])

\* the j-th selected plane (j from 0) in canonical order
CanonicalPlane(j) ==
  LET id == CHOOSE a \in SelectedIds :
              Cardinality({b \in SelectedIds : CanonicalRank(b) < CanonicalRank(a)}) = j
  IN planes[CHOOSE i \in 1..Len(planes) : planes[i].id = id]

\* the k-th bit of the stream (k from 0): the plane's bit of the pixel's
\* channel byte, pixels in scan order, planes in canonical order
ExpectedBit(k) ==
  LET bitsPerPixel == Cardinality(SelectedIds)
      p == k \div bitsPerPixel
      plane == CanonicalPlane(k % bitsPerPixel)
      x == IF extraction.scanOrder = "row-major"
           THEN p % imageData.width ELSE p \div imageData.height
      y == IF extraction.scanOrder = "row-major"
           THEN p \div imageData.width ELSE p % imageData.height
      channelByte == imageData.data[(y * imageData.width + x) * 4 + plane.channelOffset + 1]
  IN (channelByte \div Pow2(plane.bitPosition - 1)) % 2

\* the bit of the output that the k-th emitted bit is stored in
OutputBit(k) ==
  LET position == IF extraction.bytePackOrder = "msb-first" THEN 7 - (k % 8) ELSE k % 8
  IN (stream.bytes[(k \div 8) + 1] \div Pow2(position)) % 2

ImpliedTotalBits == imageData.width * imageData.height * Cardinality(SelectedIds)

\* C11: the k-th emitted bit is the canonical plane's bit of the pixel in
\* scan order, stored in byte k div 8 at bit 7 - (k mod 8) (MSB-first) or
\* k mod 8 (LSB-first); emission stops at exactly min(totalBits, 8 * output
\* length) and every output bit not written is 0.
C11_BitOrder ==
  StreamReturned =>
    \A k \in 0..(8 * Len(stream.bytes) - 1) :
      OutputBit(k) = IF k < Min(ImpliedTotalBits, 8 * Len(stream.bytes))
                     THEN ExpectedBit(k)
                     ELSE 0

\* a column-major walk over a 2x2 or larger image stopped in the middle of a
\* pixel, with bits set in the output
C11_Witness ==
  /\ StreamReturned
  /\ extraction.scanOrder = "column-major"
  /\ extraction.bitOrder = "msb-to-lsb"
  /\ imageData.width >= 2
  /\ imageData.height >= 2
  /\ stream.bitsPerPixel >= 2
  /\ 8 * Len(stream.bytes) < stream.totalBits
  /\ (8 * Len(stream.bytes)) % stream.bitsPerPixel # 0
  /\ \E i \in 1..Len(stream.bytes) : stream.bytes[i] \notin {0, 255}

\* C12: totalBits = width * height * bitsPerPixel, totalBytes =
\* ceil(totalBits / 8), the byte array has min(totalBytes, max(0, maxBytes))
\* bytes; the totals are those of the image and the selection whatever
\* maxBytes is; with no plane selected everything is 0 and the array empty.
C12_Totals ==
  StreamReturned =>
    /\ stream.totalBits = imageData.width * imageData.height * stream.bitsPerPixel
    /\ stream.totalBits = ImpliedTotalBits
    /\ 8 * stream.totalBytes >= stream.totalBits
    /\ 8 * (stream.totalBytes - 1) < stream.totalBits
    /\ Len(stream.bytes) = Min(stream.totalBytes, Max(0, maxBytes))
    /\ maxBytes < 0 => stream.bytes = <<>>
    /\ planes = <<>> =>
         /\ stream.bitsPerPixel = 0
         /\ stream.totalBits = 0
         /\ stream.totalBytes = 0
         /\ stream.bytes = <<>>

\* a negative budget on a selection whose bits do not fill a whole byte
C12_Witness ==
  /\ StreamReturned
  /\ maxBytes < 0
  /\ stream.totalBits > 8
  /\ stream.totalBits % 8 # 0
  /\ stream.totalBytes = 2
  /\ stream.bytes = <<>>

\* C13 as stated: bitsPerPixel is the length of selectedPlanes, for every list
\* of catalog planes.
C13_BitsPerPixelEveryList ==
  StreamReturned => stream.bitsPerPixel = Len(planes)

NoRepeatedPlane ==
  \A i, j \in 1..Len(planes) : planes[i].id = planes[j].id => i = j

\* C13: for every list of distinct catalog planes, bitsPerPixel is the length
\* of the list.
C13_BitsPerPixel ==
  (StreamReturned /\ NoRepeatedPlane) => stream.bitsPerPixel = Len(planes)

\* three distinct planes, given out of canonical order
C13_Witness ==
  /\ StreamReturned
  /\ NoRepeatedPlane
  /\ Len(planes) = 3
  /\ stream.bitsPerPixel = 3
  /\ planes[1].id = <<"a", 1>>
  /\ planes[3].id = <<"r", 8>>

\* ------------------------------------------------------------------------
\* Callers of one boundary detector of the catalog
\* ------------------------------------------------------------------------
\* spec.findEnd(bytes, startOffset)
FindEnd ==
  /\ pc = "start"
  /\ detectorEnd = NotRun
  /\ detectorEnd' = findEnd(detectorKind, bytes, detectorStart)
  /\ UNCHANGED <<carveVars, bitPlaneVars, detectorKind, detectorStart, variantEnd>>
  /\ UNCHANGED heapVars
  /\ UNCHANGED shellVars

\* spec.findEnd(variant, startOffset) on the rewritten buffer
FindVariantEnd ==
  /\ pc = "start"
  /\ variantEnd = NotRun
  /\ variantEnd' = findEnd(detectorKind, layout.variant, detectorStart)
  /\ UNCHANGED <<carveVars, bitPlaneVars, detectorKind, detectorStart, detectorEnd>>
  /\ UNCHANGED heapVars
  /\ UNCHANGED shellVars

\* the carving state of a caller that only runs detectors on bytes
DetectorCallerIdle ==
  /\ options = <<>>
  /\ format = "image/png"
  /\ pc = "start"
  /\ candidates = <<>>
  /\ index = 0
  /\ matches = <<>>
  /\ dedupe = {}
  /\ trailing = NoTrailingData
  /\ hostEnd = NotRun
  /\ generalEnd = NotRun

\* ------------------------------------------------------------------------
\* A buffer and a rewriting of it: a GIF extension block rewritten as an
\* image block with the same sub-block bytes; a JPEG with FF 00 inserted
\* ------------------------------------------------------------------------
\* header and logical screen descriptor without a global color table
GIF_HEAD == GIF89A_SIGNATURE \o Fill(7, 0)

\* a graphics control extension with its terminator
GIF_GCE == <<33, 249, 4, 0, 0, 0, 0, 0>>

\* image descriptor without a local color table, LZW minimum code size
GIF_IMAGE_HEAD == <<44>> \o Fill(9, 0) \o <<2>>

\* comment, application and plain-text extension labels
GifExtensionLabels == {254, 255, 1}

MaxGifTail == 4

\* what follows the block head: sub-block lengths 0, 1, 2 and the trailer
GifTails == ByteStrings({0, 1, 2, 59}, MaxGifTail)

\* b with the bytes ins inserted before offset position
InsertAt(b, position, ins) ==
  [k \in 1..(Len(b) + Len(ins)) |->
     IF k <= position THEN b[k]
     ELSE IF k <= position + Len(ins) THEN ins[k - position]
     ELSE b[k - Len(ins)]]

MaxScanFrags == 3

\* entropy-coded data: plain bytes, stuffed pairs, restart markers, fill
ScanFragments == { <<7>>, <<0>>, <<255, 0>>, <<255, 208>>, <<255, 255, 215>> }

EntropyData == Concatenations(ScanFragments, MaxScanFrags)

JPEG_SOS == JpegSegment(218, <<0>>)

\* what follows the first scan: EOI; a table and a second scan; bytes
\* after EOI
JpegScanTails ==
  { JPEG_EOI,
    JpegSegment(196, <<9>>) \o JPEG_SOS \o <<5, 255, 0>> \o JPEG_EOI,
    JPEG_EOI \o <<255, 217>> }

InitVariant ==
  /\ DetectorCallerIdle
  /\ BitPlaneIdle
  /\ detectorEnd = NotRun
  /\ variantEnd = NotRun
  /\ \E prefix \in { <<>>, <<0, 255>> } :
       /\ detectorStart = Len(prefix)
       /\ \/ /\ detectorKind = "gif"
             /\ \E before \in { <<>>, GIF_GCE }, label \in GifExtensionLabels,
                   tail \in GifTails :
                  /\ bytes = prefix \o GIF_HEAD \o before \o <<33, label>> \o tail
                  /\ layout = [relation |-> "extension as image data",
                               variant |-> prefix \o GIF_HEAD \o before
                                             \o GIF_IMAGE_HEAD \o tail,
                               data |-> tail,
                               position |-> 0]
          \/ /\ detectorKind = "jpeg"
             /\ \E seg \in JpegHeaderSegments, data \in EntropyData,
                   tail \in JpegScanTails :
                  LET head == prefix \o JPEG_SOI \o seg \o JPEG_SOS IN
                  /\ bytes = head \o data \o tail
                  /\ \E position \in 0..Len(data) :
                       layout = [relation |-> "stuffed pair inserted",
                                 variant |-> head \o InsertAt(data, position, <<255, 0>>)
                                               \o tail,
                                 data |-> data,
                                 position |-> position]
  /\ HeapFresh
  /\ ShellIdle

NextVariant == FindEnd \/ FindVariantEnd

SpecVariant == InitVariant /\ [][NextVariant]_vars

BothEndsFound == detectorEnd # NotRun /\ variantEnd # NotRun

\* C15: the data of an extension block with a label other than 0xF9 is
\* parsed by the rule of image data: the detector's result on the extension
\* block is its result on an image block holding the same sub-block bytes
\* (the image block's head is 9 bytes longer than the extension's).
C15_ExtensionAsImageData ==
  (BothEndsFound /\ detectorKind = "gif") =>
    IF variantEnd = Null
    THEN detectorEnd = Null
    ELSE detectorEnd = variantEnd - (Len(GIF_IMAGE_HEAD) - 2)

\* C18: when the JPEG detector returns end e on a buffer, it returns e + 2
\* on the buffer with FF 00 inserted anywhere in the entropy-coded data.
C18_StuffedPair ==
  (BothEndsFound /\ detectorKind = "jpeg" /\ detectorEnd # Null) =>
    variantEnd = detectorEnd + 2

\* the pair was inserted strictly inside entropy-coded data that holds a
\* restart marker, in a JPEG that does not start the buffer
C18_Witness ==
  /\ BothEndsFound
  /\ detectorKind = "jpeg"
  /\ detectorStart > 0
  /\ layout.position > 0
  /\ layout.position < Len(layout.data)
  /\ \E i \in 1..(Len(layout.data) - 1) :
       layout.data[i] = 255 /\ layout.data[i + 1] = 208
  /\ detectorEnd # Null
  /\ variantEnd = detectorEnd + 2

\* ------------------------------------------------------------------------
\* The ZIP, PNG and PDF detectors, started at their signature
\* ------------------------------------------------------------------------
MaxZipFrags == 3

\* EOCD records: no comment, the comment "hi", a declared comment of 2 bytes
\* that is not there, a declared comment of 65535 bytes; the signature
\* alone, a zero byte, the letters PK
ZipTailFragments ==
  { ZIP_EOCD,
    ZipEocdRecord(0, 0, 0, <<104, 105>>),
    ZIP_EOCD_SIGNATURE \o Fill(16, 0) \o <<2, 0>>,
    ZIP_EOCD_SIGNATURE \o Fill(16, 0) \o <<255, 255>>,
    ZIP_EOCD_SIGNATURE,
    <<0>>,
    <<80, 75>> }

MaxPngTail == 3

\* chunks: IEND, an empty IDAT, an IDAT whose data is the text IEND; lengths
\* of 2^32 - 1, 2^31 and 1; the type IEND; one byte
PngTailFragments ==
  { IEND_CHUNK,
    PngChunk(<<73, 68, 65, 84>>, <<>>),
    PngChunk(<<73, 68, 65, 84>>, <<73, 69, 78, 68>>),
    <<255, 255, 255, 255>>, <<128, 0, 0, 0>>, Be32(1), <<73, 69, 78, 68>>, <<0>> }

MaxPdfFrags == 4

\* %%EOF, a percent sign, the letters EOF, the four whitespace bytes, a
\* zero byte
PdfTailFragments ==
  { PDF_EOF_MARKER, <<37>>, <<69, 79, 70>>, <<13>>, <<10>>, <<32>>, <<9>>, <<0>> }

InitDetector ==
  /\ DetectorCallerIdle
  /\ BitPlaneIdle
  /\ detectorEnd = NotRun
  /\ variantEnd = NotRun
  /\ \E prefix \in { <<>>, <<0, 80>> } :
       /\ detectorStart = Len(prefix)
       /\ layout = <<prefix>>
       /\ \/ /\ detectorKind = "zip"
             /\ \E tail \in Concatenations(ZipTailFragments, MaxZipFrags) :
                  bytes = prefix \o ZIP_LOCAL_FILE_SIGNATURE \o tail
          \/ /\ detectorKind = "png"
             /\ \E tail \in Concatenations(PngTailFragments, MaxPngTail) :
                  bytes = prefix \o PNG_SIGNATURE \o tail
          \/ /\ detectorKind = "pdf"
             /\ \E tail \in Concatenations(PdfTailFragments, MaxPdfFrags) :
                  bytes = prefix \o PDF_SIGNATURE \o tail
  /\ HeapFresh
  /\ ShellIdle

NextDetector == FindEnd

SpecDetector == InitDetector /\ [][NextDetector]_vars

DetectorRan == detectorEnd # NotRun

\* the 2-byte little-endian field at offset o of bytes
Le16At(o) == bytes[o + 1] + 256 * bytes[o + 2]

\* offsets after the local file header signature where PK 05 06 stands
EocdSignatures ==
  { o \in (detectorStart + 4)..(Len(bytes) - 4) :
      /\ bytes[o + 1] = 80 /\ bytes[o + 2] = 75
      /\ bytes[o + 3] = 5 /\ bytes[o + 4] = 6 }

Least(S) == CHOOSE o \in S : \A q \in S : o <= q

Greatest(S) == CHOOSE o \in S : \A q \in S : q <= o

\* C16 as stated: the end is computed from the first EOCD signature, and the
\* detector returns undetected when that end exceeds the buffer.
C16_FirstEocd ==
  (DetectorRan /\ detectorKind = "zip") =>
    detectorEnd =
      IF EocdSignatures = {}
      THEN Null
      ELSE LET eocdOffset == Least(EocdSignatures) IN
           IF eocdOffset + 22 > Len(bytes)
           THEN Null
           ELSE IF eocdOffset + 22 + Le16At(eocdOffset + 20) > Len(bytes)
           THEN Null
           ELSE eocdOffset + 22 + Le16At(eocdOffset + 20)

\* EOCD signatures whose record and comment end inside the buffer
FittingEocds ==
  { o \in EocdSignatures :
      /\ o + 22 <= Len(bytes)
      /\ o + 22 + Le16At(o + 20) <= Len(bytes) }

\* C16: the end is eocdOffset + 22 + commentLength of the first EOCD
\* signature whose end so computed does not exceed the buffer; the detector
\* returns undetected when there is no such signature.
C16_FirstFittingEocd ==
  (DetectorRan /\ detectorKind = "zip") =>
    detectorEnd =
      IF FittingEocds = {}
      THEN Null
      ELSE Least(FittingEocds) + 22 + Le16At(Least(FittingEocds) + 20)

\* the first EOCD signature declares a comment that runs past the buffer and
\* a later one, with a comment, fits
C16_Witness ==
  /\ DetectorRan
  /\ detectorKind = "zip"
  /\ detectorStart > 0
  /\ FittingEocds # {}
  /\ Least(EocdSignatures) < Least(FittingEocds)
  /\ Le16At(Least(FittingEocds) + 20) > 0
  /\ detectorEnd = Len(bytes)

\* the chunk at offset o declares a length that stays inside the buffer: a
\* length with a nonzero top byte is 2^24 or more, more than any buffer here
ChunkFits(o) ==
  /\ bytes[o + 1] = 0
  /\ o + 4 + 4 + (65536 * bytes[o + 2] + 256 * bytes[o + 3] + bytes[o + 4]) + 4
       <= Len(bytes)

\* the offset just after the CRC of the chunk at offset o
ChunkEnd(o) ==
  o + 4 + 4 + (65536 * bytes[o + 2] + 256 * bytes[o + 3] + bytes[o + 4]) + 4

ChunkIsIend(o) == SubSeq(bytes, o + 5, o + 8) = <<73, 69, 78, 68>>

\* the chunk walk of the claim from the chunk at offset o: the end of the
\* first IEND chunk, or Null when a length runs past the buffer or the
\* buffer ends first
RECURSIVE ChunkWalk(_)
ChunkWalk(o) ==
  IF o + 12 > Len(bytes)
  THEN Null
  ELSE IF ~ChunkFits(o)
  THEN Null
  ELSE IF ChunkIsIend(o)
  THEN ChunkEnd(o)
  ELSE ChunkWalk(ChunkEnd(o))

\* C17: started at the signature, the PNG detector walks length + type +
\* data + CRC chunks and returns the offset after the CRC of the first IEND
\* chunk; it returns undetected when a declared length (such as 0xFFFFFFFF)
\* runs past the buffer or the buffer ends before an IEND chunk.
C17_PngWalk ==
  (DetectorRan /\ detectorKind = "png") =>
    detectorEnd = ChunkWalk(detectorStart + Len(PNG_SIGNATURE))

\* the walk passed a chunk whose data is the text IEND and ended at an IEND
\* chunk that bytes follow
C17_Witness ==
  /\ DetectorRan
  /\ detectorKind = "png"
  /\ detectorStart > 0
  /\ Len(bytes) >= detectorStart + 24
  /\ SubSeq(bytes, detectorStart + 9, detectorStart + 24)
       = <<0, 0, 0, 4, 73, 68, 65, 84, 73, 69, 78, 68, 0, 0, 0, 0>>
  /\ detectorEnd = detectorStart + Len(PNG_SIGNATURE) + 16 + Len(IEND_CHUNK)
  /\ detectorEnd < Len(bytes)

\* offsets after the header where %%EOF stands
PdfEofOffsets ==
  { o \in (detectorStart + Len(PDF_SIGNATURE))..(Len(bytes) - 5) :
      SubSeq(bytes, o + 1, o + 5) = <<37, 37, 69, 79, 70>> }

PdfWhitespace == {13, 10, 32, 9}

\* C19: started at %PDF-, the PDF detector returns the offset after the last
\* %%EOF that follows the header, extended past every CR, LF, space or tab
\* that immediately follows and no further; undetected when there is none.
C19_PdfLastEof ==
  (DetectorRan /\ detectorKind = "pdf") =>
    IF PdfEofOffsets = {}
    THEN detectorEnd = Null
    ELSE LET afterMarker == Greatest(PdfEofOffsets) + 5 IN
         /\ detectorEnd >= afterMarker
         /\ detectorEnd <= Len(bytes)
         /\ \A o \in afterMarker..(detectorEnd - 1) : bytes[o + 1] \in PdfWhitespace
         /\ detectorEnd < Len(bytes) => bytes[detectorEnd + 1] \notin PdfWhitespace

\* two %%EOF markers; whitespace and then another byte follow the last one
C19_Witness ==
  /\ DetectorRan
  /\ detectorKind = "pdf"
  /\ detectorStart > 0
  /\ Cardinality(PdfEofOffsets) = 2
  /\ detectorEnd = Greatest(PdfEofOffsets) + 5 + 1
  /\ detectorEnd < Len(bytes)

\* ------------------------------------------------------------------------
\* gatherCandidates on every buffer of CarveBuffers
\* ------------------------------------------------------------------------
\* a caller of gatherCandidates
Gather ==
  /\ pc = "start"
  /\ candidates' = gatherCandidates(bytes)
  /\ pc' = "done"
  /\ UNCHANGED <<bytes, options, format, layout, index, matches, dedupe, trailing,
                 hostEnd, generalEnd>>
  /\ UNCHANGED <<bitPlaneVars, detectorVars, heapVars>>
  /\ UNCHANGED shellVars

InitGather ==
  /\ bytes \in CarveBuffers
  /\ options = <<>>
  /\ format = "image/png"
  /\ layout = <<bytes>>
  /\ pc = "start"
  /\ candidates = <<>>
  /\ index = 0
  /\ matches = <<>>
  /\ dedupe = {}
  /\ trailing = NoTrailingData
  /\ hostEnd = NotRun
  /\ generalEnd = NotRun
  /\ BitPlaneIdle
  /\ DetectorIdle
  /\ HeapFresh
  /\ ShellIdle

NextGather == Gather

SpecGather == InitGather /\ [][NextGather]_vars

CatalogKinds == {SIGNATURE_SPECS[k] : k \in 1..Len(SIGNATURE_SPECS)}

\* C20: gatherCandidates returns exactly one candidate for each (kind,
\* offset), 0 <= offset < length, at which the kind's signature matches, and
\* no other; the list is in ascending order of start offset and is empty for
\* an empty buffer.
C20_Candidates ==
  pc = "done" =>
    /\ \A kind \in CatalogKinds, offset \in 0..(Len(bytes) - 1) :
         Cardinality({i \in 1..Len(candidates) :
                        /\ candidates[i].kind = kind
                        /\ candidates[i].startOffset = offset})
           = IF matchAt(kind, bytes, offset) THEN 1 ELSE 0
    /\ \A i \in 1..Len(candidates) :
         /\ candidates[i].kind \in CatalogKinds
         /\ candidates[i].startOffset \in 0..(Len(bytes) - 1)
    /\ \A i, j \in 1..Len(candidates) :
         i < j => candidates[i].startOffset <= candidates[j].startOffset
    /\ bytes = <<>> => candidates = <<>>

\* three signatures of three kinds were found, the first at offset 0
C20_Witness ==
  /\ pc = "done"
  /\ Len(candidates) = 3
  /\ Cardinality({candidates[i].kind : i \in 1..Len(candidates)}) = 3
  /\ candidates[1].startOffset = 0
  /\ candidates[3].startOffset > candidates[2].startOffset + 4

\* ------------------------------------------------------------------------
\* The three operations on the caller's buffers, and a caller that then
\* writes into the typed array of the result it was given
\* ------------------------------------------------------------------------
\* result.bytes[i] = v by the caller of extractTrailingData or
\* extractBitPlaneStream
WriteResult ==
  /\ pc = "done"
  /\ resultView # NoView
  /\ \E i \in 0..(resultView.length - 1), v \in {0, 255} :
       heap' = [heap EXCEPT ![resultView.buffer][resultView.byteOffset + i + 1] = v]
  /\ pc' = "written"
  /\ UNCHANGED <<bytes, options, format, layout, candidates, index, matches, dedupe,
                 trailing, hostEnd, generalEnd>>
  /\ UNCHANGED <<bitPlaneVars, detectorVars, resultView>>
  /\ UNCHANGED shellVars

\* bytes appended to a file
FrameTails == { <<>>, <<7>>, <<80, 75>> }

\* a JPEG and a PNG with and without appended bytes, a GIF, and the
\* malformed file of tests/trailingData.test.ts
FrameFiles ==
  { JPEG_HEAD \o JPEG_EOI \o t : t \in FrameTails }
  \cup { PNG_SIGNATURE \o PNG_IHDR \o IEND_CHUNK \o t : t \in FrameTails }
  \cup { GIF_FILE, <<1, 2, 3, 4>> }

InitFrame ==
  /\ bytes \in FrameFiles
  /\ options = <<>>
  /\ format \in {"image/png", "image/jpeg", "image/gif"}
  /\ layout = <<bytes>>
  /\ pc = "start"
  /\ candidates = <<>>
  /\ index = 0
  /\ matches = <<>>
  /\ dedupe = {}
  /\ trailing = NoTrailingData
  /\ hostEnd = NotRun
  /\ generalEnd = NotRun
  /\ imageData \in Images
  /\ planes \in ListsOver(PlaneChoices, 1)
  /\ extraction \in { o \in ExtractionOptions :
                        o.channelOrder = "rgba" /\ o.bitOrder = "lsb-to-msb"
                          /\ o.bytePackOrder = "msb-first" }
  /\ maxBytes \in {0, 4}
  /\ stream = NoStream
  /\ DetectorIdle
  /\ HeapFresh
  /\ ShellIdle

NextFrame ==
  CarveBegin \/ CarveStep \/ CarveReturn \/ ExtractTrailing \/ ExtractStream
    \/ WriteResult

SpecFrame == InitFrame /\ [][NextFrame]_vars

\* C14: detectCarvedPayloads, extractTrailingData and extractBitPlaneStream
\* leave the file's bytes and the pixel data as they were given, and the
\* typed array of a result is on a buffer of its own: whatever the caller
\* writes into the result, the inputs stay as given.
C14_InputsUntouched ==
  /\ heap.file = bytes
  /\ heap.pixels = imageData.data
  /\ resultView # NoView => resultView.buffer \notin {"file", "pixels"}

\* extractTrailingData returned appended bytes, the caller overwrote one of
\* them, and the file still ends with the bytes it was given
C14_Witness ==
  /\ pc = "written"
  /\ trailing # NoTrailingData
  /\ trailing.byteLength = 2
  /\ ViewContents(heap, resultView) # trailing.bytes
  /\ Slice(heap.file, trailing.containerEndOffset) = trailing.bytes

\* ------------------------------------------------------------------------
\* detectCarvedPayloads and single detector calls on buffers whose length
\* fields and overlapping signatures take the detectors to their limits
\* ------------------------------------------------------------------------
\* a caller asks one detector of the catalog about one offset of the buffer
\* that has been scanned
ProbeDetector ==
  /\ pc = "done"
  /\ detectorEnd = NotRun
  /\ \E kind \in {SIGNATURE_SPECS[k] : k \in 1..Len(SIGNATURE_SPECS)} :
       \E start \in SignatureOffsets(bytes) \cup {-1, 1, Len(bytes)} :
         /\ detectorKind' = kind
         /\ detectorStart' = start
         /\ detectorEnd' = findEnd(kind, bytes, start)
  /\ UNCHANGED <<carveVars, bitPlaneVars, variantEnd, heapVars>>
  /\ UNCHANGED shellVars

\* RIFF, a 4-byte little-endian length, WEBP
WebpHeader(riffPayloadLength) == RIFF_SIGNATURE \o riffPayloadLength \o WEBP_SIGNATURE

\* BM and the 4-byte little-endian file size
BmpHeader(size) == <<66, 77>> \o size

MaxSpanFrags == 2

\* signatures with the declared lengths at, below and far above what the
\* buffer holds; B before MM\0* makes the BMP and TIFF signatures overlap
SpanFragments ==
  { PNG_SIGNATURE, IEND_CHUNK, <<255, 216, 255>>, JPEG_EOI, GIF_FILE,
    WebpHeader(<<0, 0, 0, 0>>), WebpHeader(<<1, 0, 0, 0>>),
    WebpHeader(<<4, 0, 0, 0>>), WebpHeader(<<255, 255, 255, 255>>),
    BmpHeader(<<0, 0, 0, 0>>), BmpHeader(<<26, 0, 0, 0>>), Fill(20, 0), BMP_FILE,
    <<66>>, TIFF_BE_SIGNATURE, TIFF_LE_SIGNATURE,
    PDF_SIGNATURE, PDF_EOF_MARKER, ZIP_LOCAL_FILE_SIGNATURE, ZIP_EOCD, <<0>> }

SpanBuffers == Concatenations(SpanFragments, MaxSpanFrags)

\* maxFindings omitted, 1 and 2
SpanOptions == {<<>>, <<1>>, <<2>>}

InitSpan ==
  /\ bytes \in SpanBuffers
  /\ options \in SpanOptions
  /\ format = "image/png"
  /\ layout = <<bytes>>
  /\ pc = "start"
  /\ candidates = <<>>
  /\ index = 0
  /\ matches = <<>>
  /\ dedupe = {}
  /\ trailing = NoTrailingData
  /\ hostEnd = NotRun
  /\ generalEnd = NotRun
  /\ BitPlaneIdle
  /\ DetectorIdle
  /\ HeapFresh
  /\ ShellIdle

NextSpan == CarveBegin \/ CarveStep \/ CarveReturn \/ ProbeDetector

SpecSpan == InitSpan /\ [][NextSpan]_vars

\* C21: a detector returns undetected or an end e with start < e <= buffer
\* length, so the orchestrator never discards a detector's answer: a payload
\* has confidence low exactly when its detector returned undetected, and
\* otherwise ends where the detector said.
C21_DetectorSpan ==
  /\ (detectorEnd # NotRun /\ detectorEnd # Null)
       => (detectorStart < detectorEnd /\ detectorEnd <= Len(bytes))
  /\ Returned =>
       \A p \in Payloads :
         LET e == findEnd(p.kind, bytes, p.startOffset) IN
         /\ (p.confidence = "low") <=> (e = Null)
         /\ e # Null => p.endOffset = e

\* the BMP detector gave an end at an offset past the start of the buffer,
\* and the scan returned a low-confidence payload and a high-confidence one
C21_Witness ==
  /\ Returned
  /\ detectorKind = "bmp"
  /\ detectorStart > 0
  /\ detectorEnd # NotRun
  /\ detectorEnd # Null
  /\ \E p \in Payloads : p.confidence = "low"
  /\ \E p \in Payloads : p.confidence = "high"

\* the (kind, offset) pairs at which a catalog signature matches in bytes
SignatureMatches ==
  {m \in CatalogKinds \X (0..(Len(bytes) - 1)) : matchAt(m[1], bytes, m[2])}

\* the (kind, offset) pairs of the payloads returned
PayloadMatches == {<<matches[k].kind, matches[k].startOffset>> : k \in 1..Len(matches)}

\* C22: for maxFindings >= 1 the scan returns min(maxFindings, C) payloads,
\* C the number of (kind, offset) signature matches: one payload for each of
\* the first matches in offset order, none skipped and none removed as a
\* duplicate.
C22_PayloadCount ==
  (Returned /\ maxFindingsOf(options) >= 1) =>
    /\ Len(matches) = Min(maxFindingsOf(options), Cardinality(SignatureMatches))
    /\ PayloadMatches \subseteq SignatureMatches
    /\ Cardinality(PayloadMatches) = Len(matches)
    /\ \A k \in 1..(Len(matches) - 1) :
         matches[k].startOffset <= matches[k + 1].startOffset
    /\ \A m \in SignatureMatches \ PayloadMatches :
         \A k \in 1..Len(matches) : matches[k].startOffset <= m[2]

\* maxFindings = 2 ended the scan of a buffer with two matches, the first
\* payload being a fallback span that ends at the second match
C22_Witness ==
  /\ Returned
  /\ options = <<2>>
  /\ Cardinality(SignatureMatches) = 2
  /\ Len(matches) = 2
  /\ matches[1].confidence = "low"
  /\ matches[1].endOffset = matches[2].startOffset

\* ------------------------------------------------------------------------
\* The parsing loops of the boundary detectors, one iteration at a time.
\* walk.loop names the loop being run, walk.offset is that loop's running
\* offset (offset, markerOffset, searchOffset, endOffset in the code) and
\* walk.outer the offset the enclosing loop's iteration started at
\* ------------------------------------------------------------------------
WalkFunctions == {"png", "jpeg", "gif", "pdf", "zip", "hostPng", "hostJpeg"}

\* return r
WalkReturn(w, r) == [w EXCEPT !.loop = "returned", !.result = r]

\* the same loop goes on at offset o
WalkOn(w, o) == [w EXCEPT !.offset = o]

\* an inner loop starts at offset o inside the current iteration
WalkInto(w, inner, o) == [w EXCEPT !.loop = inner, !.outer = w.offset, !.offset = o]

\* the inner loop is left and the enclosing loop goes on at offset o
WalkBack(w, enclosing, o) == [w EXCEPT !.loop = enclosing, !.offset = o]

\* findPngEndIterate with the chunk length read as a signed 32-bit value
findPngEndIterateSigned(b, w) ==
  IF w.offset + 12 <= Len(b)
  THEN LET chunkLength == readUint32BESigned(b, w.offset) IN
       IF chunkLength = NullUint32
       THEN WalkReturn(w, Null)
       ELSE LET chunkTypeOffset == w.offset + 4
                chunkEnd == uint32Plus(chunkTypeOffset + 4 + 4, chunkLength)
            IN IF uint32Above(chunkEnd, Len(b))
               THEN WalkReturn(w, Null)
               ELSE IF isIend(b, chunkTypeOffset)
                    THEN WalkReturn(w, uint32Value(chunkEnd))
                    ELSE WalkOn(w, uint32Value(chunkEnd))
  ELSE WalkReturn(w, Null)

\* payloadCarving.ts lines 143-165: one iteration of findPngEnd's loop
findPngEndIterate(b, w) ==
  IF w.offset + 12 <= Len(b)
  THEN LET chunkLength == readUint32BE(b, w.offset) IN
       IF chunkLength = NullUint32
       THEN WalkReturn(w, Null)
       ELSE LET chunkTypeOffset == w.offset + 4
                chunkEnd == uint32Plus(chunkTypeOffset + 4 + 4, chunkLength)
            IN IF uint32Above(chunkEnd, Len(b))
               THEN WalkReturn(w, Null)
               ELSE IF isIend(b, chunkTypeOffset)
                    THEN WalkReturn(w, uint32Value(chunkEnd))
                    ELSE WalkOn(w, uint32Value(chunkEnd))
  ELSE WalkReturn(w, Null)

\* trailingData.ts lines 29-50: one iteration of findPngContainerEnd's loop
findPngContainerEndIterate(b, w) ==
  IF w.offset + 12 <= Len(b)
  THEN LET chunkLength == trailingReadUint32BE(b, w.offset)
           chunkTypeOffset == w.offset + 4
           chunkEnd == uint32Plus(chunkTypeOffset + 4 + 4, chunkLength)
       IN IF uint32Above(chunkEnd, Len(b))
          THEN WalkReturn(w, Null)
          ELSE IF isIend(b, chunkTypeOffset)
               THEN WalkReturn(w, uint32Value(chunkEnd))
               ELSE WalkOn(w, uint32Value(chunkEnd))
  ELSE WalkReturn(w, Null)

\* payloadCarving.ts lines 181-185: the head of one iteration of findJpegEnd's
\* loop, up to the start of the inner loop over fill bytes
findJpegEndIterate(b, w, fill) ==
  IF w.offset + 1 < Len(b)
  THEN IF At(b, w.offset) # 255
       THEN WalkOn(w, w.offset + 1)
       ELSE WalkInto(w, fill, w.offset + 1)
  ELSE WalkReturn(w, Null)

\* payloadCarving.ts lines 188-222: one iteration of the inner loop over fill
\* bytes and, when it ends, the rest of the enclosing iteration
findJpegEndFillIterate(b, w) ==
  LET markerOffset == w.offset IN
  IF markerOffset < Len(b) /\ At(b, markerOffset) = 255
  THEN WalkOn(w, markerOffset + 1)
  ELSE IF markerOffset >= Len(b)
  THEN WalkReturn(w, Null)
  ELSE LET marker == At(b, markerOffset) IN
       IF marker = 0
       THEN WalkBack(w, "jpegSegments", markerOffset + 1)
       ELSE IF marker = 217
       THEN WalkReturn(w, markerOffset + 1)
       ELSE IF isStandaloneMarker(marker)
       THEN WalkBack(w, "jpegSegments", markerOffset + 1)
       ELSE LET segmentLength == readUint16BE(b, markerOffset + 1) IN
            IF segmentLength = Null \/ segmentLength < 2
            THEN WalkReturn(w, Null)
            ELSE LET segmentEnd == markerOffset + 1 + segmentLength IN
                 IF segmentEnd > Len(b)
                 THEN WalkReturn(w, Null)
                 ELSE WalkBack(w, "jpegSegments", segmentEnd)

\* trailingData.ts lines 66-108: the same for findJpegContainerEnd, which
\* reads the segment length itself
findJpegContainerEndFillIterate(b, w) ==
  LET markerOffset == w.offset IN
  IF markerOffset < Len(b) /\ At(b, markerOffset) = 255
  THEN WalkOn(w, markerOffset + 1)
  ELSE IF markerOffset >= Len(b)
  THEN WalkReturn(w, Null)
  ELSE LET marker == At(b, markerOffset) IN
       IF marker = 0
       THEN WalkBack(w, "hostJpegSegments", markerOffset + 1)
       ELSE IF marker = 217
       THEN WalkReturn(w, markerOffset + 1)
       ELSE IF isStandaloneMarker(marker)
       THEN WalkBack(w, "hostJpegSegments", markerOffset + 1)
       ELSE IF markerOffset + 2 >= Len(b)
       THEN WalkReturn(w, Null)
       ELSE LET segmentLength == 256 * U8(b, markerOffset + 1) + U8(b, markerOffset + 2) IN
            IF segmentLength < 2
            THEN WalkReturn(w, Null)
            ELSE LET segmentEnd == markerOffset + 1 + segmentLength IN
                 IF segmentEnd > Len(b)
                 THEN WalkReturn(w, Null)
                 ELSE WalkBack(w, "hostJpegSegments", segmentEnd)

\* payloadCarving.ts lines 250-337: one iteration of findGifEnd's loop, up to
\* the start of a loop over sub-blocks
findGifEndIterate(b, w) ==
  IF w.offset < Len(b)
  THEN LET sentinel == At(b, w.offset)
           offset == w.offset + 1
       IN
       IF sentinel = 59
       THEN WalkReturn(w, offset)
       ELSE IF sentinel = 44
       THEN IF offset + 9 > Len(b)
            THEN WalkReturn(w, Null)
            ELSE LET packedLocal == At(b, offset + 8)
                     afterTable == IF gifHasTable(packedLocal)
                                   THEN offset + 9 + gifTableSize(packedLocal)
                                   ELSE offset + 9
                 IN IF afterTable > Len(b) \/ afterTable >= Len(b)
                    THEN WalkReturn(w, Null)
                    ELSE WalkInto(w, "gifImageSubBlocks", afterTable + 1)
       ELSE IF sentinel = 33
       THEN IF offset >= Len(b)
            THEN WalkReturn(w, Null)
            ELSE LET extensionLabel == At(b, offset)
                     body == offset + 1
                 IN
                 IF body >= Len(b)
                 THEN WalkReturn(w, Null)
                 ELSE IF extensionLabel = 249
                 THEN LET terminator == body + 1 + At(b, body) IN
                      IF terminator >= Len(b) \/ At(b, terminator) # 0
                      THEN WalkReturn(w, Null)
                      ELSE WalkOn(w, terminator + 1)
                 ELSE LET afterFirst == body + 1 + At(b, body) IN
                      IF afterFirst > Len(b)
                      THEN WalkReturn(w, Null)
                      ELSE WalkInto(w, "gifExtensionSubBlocks", afterFirst)
       ELSE WalkReturn(w, Null)
  ELSE WalkReturn(w, Null)

\* payloadCarving.ts lines 278-288 and 322-332: one iteration of a loop over
\* sub-blocks; break and a false loop condition both go on with the
\* enclosing loop
findGifEndSubBlocksIterate(b, w) ==
  IF w.offset < Len(b)
  THEN LET blockSize == At(b, w.offset) IN
       IF blockSize = 0
       THEN WalkBack(w, "gifBlocks", w.offset + 1)
       ELSE IF w.offset + 1 + blockSize > Len(b)
            THEN WalkReturn(w, Null)
            ELSE WalkOn(w, w.offset + 1 + blockSize)
  ELSE WalkBack(w, "gifBlocks", w.offset)

\* payloadCarving.ts lines 404-415: the loop over trailing whitespace starts
\* after the last marker found
findPdfEndAfterSearch(w) ==
  IF w.lastEofOffset < 0
  THEN WalkReturn(w, Null)
  ELSE [w EXCEPT !.loop = "pdfWhitespace",
                 !.offset = w.lastEofOffset + Len(PDF_EOF_MARKER)]

\* payloadCarving.ts lines 393-402: one iteration of findPdfEnd's search loop
findPdfEndSearchIterate(b, w) ==
  IF w.offset + Len(PDF_EOF_MARKER) <= Len(b)
  THEN LET found == findNextPattern(b, PDF_EOF_MARKER, w.offset) IN
       IF found < 0
       THEN findPdfEndAfterSearch(w)
       ELSE [w EXCEPT !.lastEofOffset = found,
                      !.offset = found + Len(PDF_EOF_MARKER)]
  ELSE findPdfEndAfterSearch(w)

\* payloadCarving.ts lines 408-417: one iteration of the whitespace loop
findPdfEndWhitespaceIterate(b, w) ==
  IF w.offset < Len(b) /\ isPdfWhitespace(At(b, w.offset))
  THEN WalkOn(w, w.offset + 1)
  ELSE WalkReturn(w, w.offset)

\* payloadCarving.ts lines 425-443: one iteration of findZipEnd's loop
findZipEndIterate(b, w) ==
  IF w.offset + 22 <= Len(b)
  THEN IF ~matchesAt(b, w.offset, ZIP_EOCD_SIGNATURE)
       THEN WalkOn(w, w.offset + 1)
       ELSE LET commentLength == readUint16LE(b, w.offset + 20) IN
            IF commentLength = Null
            THEN WalkOn(w, w.offset + 1)
            ELSE LET endOffset == w.offset + 22 + commentLength IN
                 IF endOffset <= Len(b)
                 THEN WalkReturn(w, endOffset)
                 ELSE WalkOn(w, w.offset + 1)
  ELSE WalkReturn(w, Null)

\* the code of each function before its first loop
walkEnter(b, fn, startOffset) ==
  LET w == [fn |-> fn, loop |-> "entered", start |-> startOffset,
            offset |-> startOffset, outer |-> startOffset, lastEofOffset |-> -1,
            result |-> NotRun]
  IN
  CASE fn = "png" ->
         IF ~matchesAt(b, startOffset, PNG_SIGNATURE)
         THEN WalkReturn(w, Null)
         ELSE [w EXCEPT !.loop = "pngChunks",
                        !.offset = startOffset + Len(PNG_SIGNATURE)]
    [] fn = "jpeg" ->
         IF ~matchAt("jpeg", b, startOffset)
         THEN WalkReturn(w, Null)
         ELSE [w EXCEPT !.loop = "jpegSegments", !.offset = startOffset + 2]
    [] fn = "gif" ->
         IF ~matchAt("gif", b, startOffset)
         THEN WalkReturn(w, Null)
         ELSE IF startOffset + 13 > Len(b)
         THEN WalkReturn(w, Null)
         ELSE LET packedGlobal == At(b, startOffset + 10)
                  offset == IF gifHasTable(packedGlobal)
                            THEN startOffset + 13 + gifTableSize(packedGlobal)
                            ELSE startOffset + 13
              IN IF offset > Len(b)
                 THEN WalkReturn(w, Null)
                 ELSE [w EXCEPT !.loop = "gifBlocks", !.offset = offset]
    [] fn = "pdf" ->
         IF ~matchesAt(b, startOffset, PDF_SIGNATURE)
         THEN WalkReturn(w, Null)
         ELSE [w EXCEPT !.loop = "pdfSearch",
                        !.offset = startOffset + Len(PDF_SIGNATURE)]
    [] fn = "zip" ->
         IF ~matchesAt(b, startOffset, ZIP_LOCAL_FILE_SIGNATURE)
         THEN WalkReturn(w, Null)
         ELSE [w EXCEPT !.loop = "zipRecords",
                        !.offset = startOffset + Len(ZIP_LOCAL_FILE_SIGNATURE)]
    [] fn = "hostPng" ->
         IF Len(b) < Len(TRAILING_PNG_SIGNATURE)
         THEN WalkReturn(w, Null)
         ELSE IF \E i \in 0..(Len(TRAILING_PNG_SIGNATURE) - 1) :
                   At(b, i) # TRAILING_PNG_SIGNATURE[i + 1]
         THEN WalkReturn(w, Null)
         ELSE [w EXCEPT !.loop = "hostPngChunks",
                        !.offset = Len(TRAILING_PNG_SIGNATURE)]
    [] fn = "hostJpeg" ->
         IF Len(b) < 4 \/ At(b, 0) # 255 \/ At(b, 1) # 216
         THEN WalkReturn(w, Null)
         ELSE [w EXCEPT !.loop = "hostJpegSegments", !.offset = 2]

\* one iteration of the loop the function is in
walkIterate(b, w) ==
  CASE w.loop = "pngChunks" -> findPngEndIterate(b, w)
    [] w.loop = "hostPngChunks" -> findPngContainerEndIterate(b, w)
    [] w.loop = "jpegSegments" -> findJpegEndIterate(b, w, "jpegFill")
    [] w.loop = "jpegFill" -> findJpegEndFillIterate(b, w)
    [] w.loop = "hostJpegSegments" -> findJpegEndIterate(b, w, "hostJpegFill")
    [] w.loop = "hostJpegFill" -> findJpegContainerEndFillIterate(b, w)
    [] w.loop = "gifBlocks" -> findGifEndIterate(b, w)
    [] w.loop = "gifImageSubBlocks" -> findGifEndSubBlocksIterate(b, w)
    [] w.loop = "gifExtensionSubBlocks" -> findGifEndSubBlocksIterate(b, w)
    [] w.loop = "pdfSearch" -> findPdfEndSearchIterate(b, w)
    [] w.loop = "pdfWhitespace" -> findPdfEndWhitespaceIterate(b, w)
    [] w.loop = "zipRecords" -> findZipEndIterate(b, w)

WalkLoops ==
  {"pngChunks", "hostPngChunks", "jpegSegments", "jpegFill", "hostJpegSegments",
   "hostJpegFill", "gifBlocks", "gifImageSubBlocks", "gifExtensionSubBlocks",
   "pdfSearch", "pdfWhitespace", "zipRecords"}

\* the loops that run inside an iteration of another loop
InnerLoops == {"jpegFill", "hostJpegFill", "gifImageSubBlocks", "gifExtensionSubBlocks"}

\* a detector is called on the scanned buffer; the host detectors always
\* start at offset 0
WalkEnter ==
  /\ pc = "done"
  /\ walk.loop = "idle"
  /\ \E fn \in WalkFunctions :
       \E startOffset \in IF fn \in {"hostPng", "hostJpeg"}
                          THEN {0}
                          ELSE {0} \cup SignatureOffsets(bytes) :
         walk' = walkEnter(bytes, fn, startOffset)
  /\ UNCHANGED <<carveVars, bitPlaneVars, detectorVars, heapVars>>
  /\ UNCHANGED <<scanVars, decodeVars, workerVars, appVars>>

\* the detector runs one iteration of its current loop
WalkIterate ==
  /\ walk.loop \in WalkLoops
  /\ walk' = walkIterate(bytes, walk)
  /\ UNCHANGED <<carveVars, bitPlaneVars, detectorVars, heapVars>>
  /\ UNCHANGED <<scanVars, decodeVars, workerVars, appVars>>

MaxWalkFrags == 2

\* a PNG chunk with the four length bytes given, no data, and a zero CRC
WalkPngChunk(lengthBytes) == lengthBytes \o <<73, 68, 65, 84>> \o Fill(4, 0)

\* chunks declaring 0, 0xFFFFFFF4 (-12 if read signed), 0x80000000 and 4
\* bytes of data, the last with its data
WalkPngFragments ==
  { IEND_CHUNK, WalkPngChunk(<<0, 0, 0, 0>>), WalkPngChunk(<<255, 255, 255, 244>>),
    WalkPngChunk(<<128, 0, 0, 0>>), WalkPngChunk(<<0, 0, 0, 4>>) \o Fill(4, 0), <<0>> }

\* fill and stuffing bytes, markers, segments of declared length 2 and 0
WalkJpegFragments ==
  { <<255>>, <<0>>, JPEG_EOI, <<208>>, <<224, 0, 2>>, <<224, 0, 0>>, <<17>> }

\* the trailer, an image and a comment extension with one sub-block, an
\* image whose sub-block overruns, an extension without data, a graphics
\* control extension
WalkGifFragments ==
  { <<59>>, GIF_IMAGE_HEAD \o <<1, 7, 0>>, GIF_IMAGE_HEAD \o <<2, 7>>,
    <<33, 254, 1, 7, 0>>, <<33, 254, 0>>, GIF_GCE, <<0>> }

WalkPdfFragments == { PDF_EOF_MARKER, PDF_EOF_LINE, <<37>>, <<32>>, <<0>> }

\* end-of-central-directory records with comment lengths 0, 1 and 65535
WalkZipFragments ==
  { ZIP_EOCD, ZIP_EOCD_SIGNATURE \o Fill(16, 0) \o <<1, 0>>,
    ZIP_EOCD_SIGNATURE \o Fill(16, 0) \o <<255, 255>>, ZIP_EOCD_SIGNATURE, <<0>> }

WalkBuffers ==
  {PNG_SIGNATURE \o t : t \in Concatenations(WalkPngFragments, MaxWalkFrags)}
  \cup {<<255, 216, 255>> \o t : t \in Concatenations(WalkJpegFragments, MaxWalkFrags)}
  \cup {GIF_HEAD \o t : t \in Concatenations(WalkGifFragments, MaxWalkFrags)}
  \cup {PDF_SIGNATURE \o t : t \in Concatenations(WalkPdfFragments, MaxWalkFrags)}
  \cup {ZIP_LOCAL_FILE_SIGNATURE \o t : t \in Concatenations(WalkZipFragments, MaxWalkFrags)}

InitWalk ==
  /\ bytes \in WalkBuffers
  /\ options \in {<<>>, <<1>>}
  /\ format = "image/png"
  /\ layout = <<bytes>>
  /\ pc = "start"
  /\ candidates = <<>>
  /\ index = 0
  /\ matches = <<>>
  /\ dedupe = {}
  /\ trailing = NoTrailingData
  /\ hostEnd = NotRun
  /\ generalEnd = NotRun
  /\ BitPlaneIdle
  /\ DetectorIdle
  /\ HeapFresh
  /\ ShellIdle

NextWalk == CarveBegin \/ CarveStep \/ CarveReturn \/ WalkEnter \/ WalkIterate

\* the functions are synchronous: a detector that is called runs, and each
\* next iteration of its loops is taken
SpecWalk ==
  /\ InitWalk
  /\ [][NextWalk]_vars
  /\ WF_vars(WalkEnter \/ WalkIterate)

\* the whole-function result of the detector that walk steps through
WalkDetectorResult ==
  CASE walk.fn = "hostPng" -> findPngContainerEnd(bytes)
    [] walk.fn = "hostJpeg" -> findJpegContainerEnd(bytes)
    [] OTHER -> findEnd(walk.fn, bytes, walk.start)

\* the iterations end with the result of the function
WalkAgrees == walk.loop = "returned" => walk.result = WalkDetectorResult

\* what one step of a loop does to its offset: an iteration that stays in
\* its loop, or starts an inner loop, moves the offset forward; an iteration
\* of an enclosing loop that ends after an inner loop ends beyond the offset
\* it started at; an iteration of detectCarvedPayloads' loop moves on to the
\* next candidate
LoopAdvances ==
  /\ (walk.loop \in WalkLoops /\ walk'.loop = walk.loop) => walk'.offset > walk.offset
  /\ (walk.loop \in WalkLoops /\ walk'.loop \in InnerLoops /\ walk.loop \notin InnerLoops)
       => (walk'.offset > walk.offset /\ walk'.outer = walk.offset)
  /\ (walk.loop \in InnerLoops /\ walk'.loop \in WalkLoops \ InnerLoops)
       => walk'.offset > walk.outer
  /\ (pc = "loop" /\ pc' = "loop") => index' > index

\* C23: detectCarvedPayloads and every boundary detector, general-purpose
\* and host, terminate on every buffer: each iteration of each parsing loop
\* strictly advances its offset, the loop over the candidates never passes
\* their number, and a detector that is called returns.
C23_Terminates ==
  /\ [][LoopAdvances]_vars
  /\ [](index <= Len(candidates))
  /\ (pc = "done") ~> (walk.loop = "returned")

\* the PNG detector is at a chunk whose declared length has the high bit
\* set, which a signed reading would turn into a step backwards
C23_Witness ==
  /\ walk.fn = "png"
  /\ walk.loop = "pngChunks"
  /\ walk.offset + 12 <= Len(bytes)
  /\ At(bytes, walk.offset) = 255
  /\ At(bytes, walk.offset + 3) = 244

\* ------------------------------------------------------------------------
\* A detector on a buffer and on the same buffer with bytes appended
\* ------------------------------------------------------------------------
MaxAppendFrags == 2

\* what follows a WebP or BMP header
AppendFillFragments == { <<0>>, Fill(20, 0), <<1, 2, 3>> }

\* the buffers of each of the five detectors, starting with its signature
AppendBuffers(kind) ==
  CASE kind = "png" ->
         {PNG_SIGNATURE \o t : t \in Concatenations(WalkPngFragments, MaxAppendFrags)}
    [] kind = "jpeg" ->
         {<<255, 216, 255>> \o t : t \in Concatenations(WalkJpegFragments, MaxAppendFrags)}
    [] kind = "gif" ->
         {GIF_HEAD \o t : t \in Concatenations(WalkGifFragments, MaxAppendFrags)}
    [] kind = "webp" ->
         {WebpHeader(n) \o t :
            n \in {<<0, 0, 0, 0>>, <<1, 0, 0, 0>>, <<4, 0, 0, 0>>, <<7, 0, 0, 0>>,
                   <<255, 255, 255, 255>>},
            t \in Concatenations(AppendFillFragments, MaxAppendFrags)}
    [] kind = "bmp" ->
         {BmpHeader(n) \o t :
            n \in {<<25, 0, 0, 0>>, <<26, 0, 0, 0>>, <<29, 0, 0, 0>>, <<0, 0, 0, 64>>},
            t \in Concatenations(AppendFillFragments, MaxAppendFrags)}

\* bytes appended: filler, and bytes that end or continue each container
AppendedTails ==
  { <<0>>, <<255, 217>>, <<59>>, IEND_CHUNK, <<255, 216, 255, 0>>, Fill(23, 0) }

InitAppend ==
  /\ DetectorCallerIdle
  /\ BitPlaneIdle
  /\ detectorEnd = NotRun
  /\ variantEnd = NotRun
  /\ detectorKind \in {"png", "jpeg", "gif", "webp", "bmp"}
  /\ \E prefix \in { <<>>, <<0, 255>> }, appended \in AppendedTails :
       /\ detectorStart = Len(prefix)
       /\ \E file \in AppendBuffers(detectorKind) :
            /\ bytes = prefix \o file
            /\ layout = [relation |-> "bytes appended",
                         variant |-> prefix \o file \o appended,
                         data |-> appended,
                         position |-> Len(prefix \o file)]
  /\ HeapFresh
  /\ ShellIdle

NextAppend == FindEnd \/ FindVariantEnd

SpecAppend == InitAppend /\ [][NextAppend]_vars

\* C24: when the PNG, JPEG, GIF, WebP or BMP detector returns end e for a
\* buffer at a start offset, it returns the same e for the buffer with
\* bytes appended.
C24_AppendedBytesIgnored ==
  (BothEndsFound /\ detectorEnd # Null) => variantEnd = detectorEnd

\* a detection that ends where the buffer ends, at a start past offset 0,
\* is unchanged by bytes that could continue the container
C24_Witness ==
  /\ BothEndsFound
  /\ detectorStart > 0
  /\ detectorEnd = Len(bytes)
  /\ variantEnd = detectorEnd
  /\ Len(layout.variant) > Len(bytes) + 1

\* the length of the signature of each format, as the claim lists them
SignatureLength(kind) ==
  CASE kind = "png" -> 8
    [] kind = "jpeg" -> 3
    [] kind = "gif" -> 6
    [] kind = "webp" -> 12
    [] kind = "bmp" -> 2
    [] kind = "tiff" -> 4
    [] kind = "pdf" -> 5
    [] kind = "zip" -> 4

\* C25: every payload returned by detectCarvedPayloads contains the complete
\* signature that matched at its start: its byteLength is at least the
\* length of its format's signature.
C25_SignatureContained ==
  Returned => \A p \in Payloads : p.byteLength >= SignatureLength(p.kind)

\* ------------------------------------------------------------------------
\* extractBitPlaneStream called twice on one image, selection and options:
\* App's hexDumpView with the smaller budget and bitPlanePayloadCarving with
\* the larger one
\* ------------------------------------------------------------------------
\* analysisImageData when no image has been decoded
NoImage == [isNull |-> TRUE]

\* App.tsx analysisImageData: the pixels of the decoded image, null while
\* the application holds no decoded image
analysisImageData(a, image) ==
  IF a.decoded = Null THEN NoImage ELSE image

\* App.tsx bitPlanePayloadCarving: null when there is no image or no plane
\* is selected; otherwise the call with the larger budget, followed by the
\* scan of the bytes it returned
bitPlanePayloadCarving(h, image, selectedPlanes, extractionOptions, budget) ==
  IF image = NoImage \/ Len(selectedPlanes) = 0
  THEN [heap |-> h, result |-> NoStream]
  ELSE LET extracted == extractBitPlaneStream(image, selectedPlanes,
                                              extractionOptions, budget)
           packed == newUint8ArrayIn(h, "scan", extracted.bytes)
       IN [heap |-> packed.heap,
           result |-> [bytes |-> extracted.bytes,
                       view |-> packed.view,
                       payloads |-> detectCarvedPayloads(extracted.bytes, <<>>),
                       scannedBytes |-> Len(extracted.bytes),
                       totalBytes |-> extracted.totalBytes,
                       isScanTruncated |-> Len(extracted.bytes) < extracted.totalBytes]]

ExtractScanStream ==
  /\ scanStream = NoScan
  /\ LET memo == bitPlanePayloadCarving(heap, analysisImageData(app, imageData),
                                        planes, extraction, scanMaxBytes)
     IN /\ heap' = memo.heap
        /\ scanStream' = memo.result
  /\ UNCHANGED <<carveVars, bitPlaneVars, detectorVars, resultView>>
  /\ UNCHANGED <<scanMaxBytes, walkVars, decodeVars, workerVars, appVars>>

\* budgets of no byte, one byte and two bytes, each with a larger one
BudgetPairs ==
  {<<0, 1>>} \cup {p \in {1, 2} \X {2, 3, 5} : p[1] < p[2]}

\* the application after one load has returned an image
AppLoaded ==
  /\ app = [decoded |-> 1, error |-> Null, isLoading |-> FALSE,
            cleared |-> FALSE]
  /\ loads = << [file |-> [type |-> "image/gif", name |-> ".GIF"],
                 state |-> "returned", overlaps |-> FALSE] >>

InitBudget ==
  /\ CarveIdle
  /\ DetectorIdle
  /\ pc = "start"
  /\ \/ AppLoaded /\ imageData \in Images
     \/ AppIdle /\ imageData = [width |-> 0, height |-> 0, data |-> <<>>]
  /\ planes \in PlaneSelections
  /\ extraction \in ExtractionOptions
  /\ \E p \in BudgetPairs : maxBytes = p[1] /\ scanMaxBytes = p[2]
  /\ stream = NoStream
  /\ scanStream = NoScan
  /\ HeapFresh
  /\ WalkIdle
  /\ DecodeIdle
  /\ WorkerIdle

NextBudget == ExtractStream \/ ExtractScanStream

SpecBudget == InitBudget /\ [][NextBudget]_vars

BothStreamsReturned ==
  stream # NoStream /\ scanStream # NoScan /\ scanStream # NoStream

\* C26: the bytes returned with budget m are the first min(m, totalBytes)
\* bytes of the bytes returned with a larger budget.
C26_BudgetPrefix ==
  BothStreamsReturned =>
    LET n == Min(maxBytes, stream.totalBytes) IN
    /\ Len(stream.bytes) = n
    /\ n <= Len(scanStream.bytes)
    /\ stream.bytes = SubSeq(scanStream.bytes, 1, n)

\* a one-byte budget cut a three-plane stream in the middle of a pixel whose
\* remaining bit is set, and the larger budget returned every byte
C26_Witness ==
  /\ BothStreamsReturned
  /\ maxBytes = 1
  /\ stream.bitsPerPixel = 3
  /\ stream.totalBytes = 2
  /\ Len(scanStream.bytes) = 2
  /\ scanStream.bytes[2] # 0
  /\ stream.bytes[1] % 4 # 0

\* ------------------------------------------------------------------------
\* decodeImageFile: one step per awaited operation; what the browser does
\* at each step (resolve, reject, throw, absent API) is chosen by the step
\* ------------------------------------------------------------------------
\* most frames an ImageDecoder reports for one GIF
MaxGifFrames == 2

\* String.prototype.toLowerCase on the strings the files below carry
toLowerCase(s) ==
  CASE s = "IMAGE/PNG" -> "image/png"
    [] s = ".GIF" -> ".gif"
    [] OTHER -> s

\* a file name is represented by its last dotted suffix
normalizeImageFormat(file) ==
  LET mimeType == toLowerCase(file.type)
      name == toLowerCase(file.name)
  IN  IF mimeType = "image/png" THEN "image/png"
      ELSE IF mimeType \in {"image/jpeg", "image/jpg", "image/pjpeg"} THEN "image/jpeg"
      ELSE IF mimeType = "image/webp" THEN "image/webp"
      ELSE IF mimeType \in {"image/bmp", "image/x-ms-bmp", "image/x-bmp"} THEN "image/bmp"
      ELSE IF mimeType \in {"image/tiff", "image/x-tiff"} THEN "image/tiff"
      ELSE IF mimeType = "image/gif" THEN "image/gif"
      ELSE IF name = ".png" THEN "image/png"
      ELSE IF name \in {".jpg", ".jpeg"} THEN "image/jpeg"
      ELSE IF name = ".webp" THEN "image/webp"
      ELSE IF name \in {".bmp", ".dib"} THEN "image/bmp"
      ELSE IF name \in {".tif", ".tiff"} THEN "image/tiff"
      ELSE IF name = ".gif" THEN "image/gif"
      ELSE "none"

\* a resource handed out by the browser, with the number of times it has
\* been closed or revoked
acquire(r, kind) == Append(r, [kind |-> kind, released |-> 0])

release(r, i) == [r EXCEPT ![i].released = @ + 1]

\* decoder?.close?.() in decodeGifFrames' finally block
closeDecoder(r) ==
  IF \E i \in 1..Len(r) : r[i].kind = "decoder"
    THEN release(r, CHOOSE i \in 1..Len(r) : r[i].kind = "decoder")
    ELSE r

\* the branch on frames at the head of the pixel decode
selectPixels(d) ==
  IF d.frames > 0
    THEN [d EXCEPT !.imageData = "frame", !.pc = "trailing"]
    ELSE [d EXCEPT !.pc = "bitmap"]

\* readExifMetadata rethrown instead of caught
readExifUncaught(d, outcome) ==
  IF outcome = "throws"
    THEN [d EXCEPT !.exifRead = outcome, !.pc = "thrown"]
    ELSE [d EXCEPT !.exif = outcome, !.exifRead = outcome, !.pc = "bytes"]

decodeImageFileEnter(d, file) ==
  LET normalized == normalizeImageFormat(file) IN
  IF normalized = "none"
    THEN [d EXCEPT !.pc = "thrown"]
    ELSE [d EXCEPT !.format = normalized, !.pc = "exif"]

readExif(d, outcome) ==
  [d EXCEPT !.exif = IF outcome = "throws" THEN "null" ELSE outcome,
            !.exifRead = outcome,
            !.pc = "bytes"]

readSourceBytes(d, outcome) ==
  LET sourceBytes == outcome = "bytes" IN
  IF d.format = "image/gif" /\ sourceBytes
    THEN [d EXCEPT !.sourceBytes = sourceBytes, !.bytesRead = outcome,
                   !.pc = "gifOpen"]
    ELSE selectPixels([d EXCEPT !.sourceBytes = sourceBytes,
                                !.bytesRead = outcome])

\* decodeGifFrames up to its frame loop
decodeGifFramesOpen(d, r, decoder, frameCount) ==
  IF decoder = "absent"
    THEN [decode |-> selectPixels(d), resources |-> r]
  ELSE IF decoder = "throws"
    THEN [decode |-> selectPixels(d), resources |-> closeDecoder(r)]
  ELSE IF frameCount <= 1
    THEN [decode |-> selectPixels([d EXCEPT !.frameCount = frameCount]),
          resources |-> closeDecoder(acquire(r, "decoder"))]
  ELSE [decode |-> [d EXCEPT !.frameCount = frameCount, !.frameIndex = 0,
                             !.pc = "gifFrame"],
        resources |-> acquire(r, "decoder")]

\* one iteration of decodeGifFrames' frame loop, and the return after the
\* last one
decodeGifFramesFrame(d, r, outcome) ==
  IF outcome = "decodeThrows"
    THEN [decode |-> selectPixels([d EXCEPT !.frames = 0]),
          resources |-> closeDecoder(r)]
  ELSE IF outcome = "noDimensions"
    THEN [decode |-> selectPixels([d EXCEPT !.frames = 0]),
          resources |-> closeDecoder(acquire(r, "frame"))]
  ELSE IF outcome = "canvasThrows"
    THEN [decode |-> selectPixels([d EXCEPT !.frames = 0]),
          resources |-> closeDecoder(release(acquire(r, "frame"), Len(r) + 1))]
  ELSE IF d.frameIndex + 1 < d.frameCount
    THEN [decode |-> [d EXCEPT !.frames = @ + 1, !.frameIndex = @ + 1],
          resources |-> release(acquire(r, "frame"), Len(r) + 1)]
  ELSE [decode |-> selectPixels([d EXCEPT !.frames = @ + 1,
                                          !.frameIndex = @ + 1]),
        resources |-> closeDecoder(release(acquire(r, "frame"), Len(r) + 1))]

\* decodeImageFile's catch and decodeWithImageElement up to its await: the
\* object URL is created in the turn in which the bitmap decoder failed, and
\* the function then waits for the image to load
decodeWithImageElementEnter(d, r) ==
  [decode |-> [d EXCEPT !.pc = "element"],
   resources |-> acquire(r, "objectUrl")]

\* decodeWithImageBitmap once a bitmap has been obtained: drawn to a
\* canvas and closed
decodeWithImageBitmapDraw(d, r, outcome) ==
  IF outcome = "canvasThrows"
    THEN decodeWithImageElementEnter([d EXCEPT !.bitmap = outcome],
                                     release(acquire(r, "bitmap"), Len(r) + 1))
    ELSE [decode |-> [d EXCEPT !.bitmap = outcome, !.imageData = "bitmap",
                               !.frames = 1, !.pc = "trailing"],
          resources |-> release(acquire(r, "bitmap"), Len(r) + 1)]

\* decodeWithImageBitmap up to the outcome of createImageBitmap(file, options)
decodeWithImageBitmap(d, r, outcome) ==
  IF outcome = "unavailable"
    THEN decodeWithImageElementEnter([d EXCEPT !.bitmap = outcome], r)
  ELSE IF outcome = "rejected"
    THEN [decode |-> [d EXCEPT !.bitmapRetried = TRUE, !.pc = "bitmapRetry"],
          resources |-> r]
  ELSE decodeWithImageBitmapDraw(d, r, outcome)

\* the outcome of the second attempt, createImageBitmap(file)
decodeWithImageBitmapRetry(d, r, outcome) ==
  IF outcome = "rejected"
    THEN decodeWithImageElementEnter([d EXCEPT !.bitmap = outcome], r)
    ELSE decodeWithImageBitmapDraw(d, r, outcome)

\* decodeWithImageElement from the outcome of the image load on: the object
\* URL, the resource acquired last, is revoked
decodeWithImageElement(d, r, outcome) ==
  IF outcome \in {"loadError", "canvasThrows"}
    THEN [decode |-> [d EXCEPT !.element = outcome, !.pc = "thrown"],
          resources |-> release(r, Len(r))]
    ELSE [decode |-> [d EXCEPT !.element = outcome, !.imageData = "element",
                               !.frames = 1, !.pc = "trailing"],
          resources |-> release(r, Len(r))]

readTrailingData(d, outcome) ==
  IF d.sourceBytes
    THEN [d EXCEPT !.trailingData = IF outcome = "throws" THEN "null" ELSE outcome,
                   !.trailingRead = outcome,
                   !.pc = "returned"]
    ELSE [d EXCEPT !.trailingRead = "skipped", !.pc = "returned"]

\* files by MIME type and name suffix: recognised by type, by name only,
\* in upper case, and not at all
DecodeFiles ==
  [type : {"image/gif", "image/jpg", "IMAGE/PNG", "", "text/plain"},
   name : {".GIF", ".jpeg", ".txt"}]

DecodeRest == <<carveVars, bitPlaneVars, detectorVars, heapVars, scanVars, walkVars, workerVars, appVars>>

DecodeImageFileEnter ==
  /\ decode.pc = "idle"
  /\ \E file \in DecodeFiles : decode' = decodeImageFileEnter(decode, file)
  /\ UNCHANGED resources
  /\ UNCHANGED DecodeRest

ReadExif ==
  /\ decode.pc = "exif"
  /\ \E outcome \in {"entries", "null", "throws"} :
       decode' = readExif(decode, outcome)
  /\ UNCHANGED resources
  /\ UNCHANGED DecodeRest

ReadSourceBytes ==
  /\ decode.pc = "bytes"
  /\ \E outcome \in {"bytes", "throws"} :
       decode' = readSourceBytes(decode, outcome)
  /\ UNCHANGED resources
  /\ UNCHANGED DecodeRest

DecodeGifFramesOpen ==
  /\ decode.pc = "gifOpen"
  /\ \E decoder \in {"absent", "throws", "constructed"}, frameCount \in 0..MaxGifFrames :
       LET after == decodeGifFramesOpen(decode, resources, decoder, frameCount) IN
       /\ decode' = after.decode
       /\ resources' = after.resources
  /\ UNCHANGED DecodeRest

DecodeGifFramesFrame ==
  /\ decode.pc = "gifFrame"
  /\ \E outcome \in {"decodeThrows", "noDimensions", "canvasThrows", "frame"} :
       LET after == decodeGifFramesFrame(decode, resources, outcome) IN
       /\ decode' = after.decode
       /\ resources' = after.resources
  /\ UNCHANGED DecodeRest

DecodeWithImageBitmap ==
  /\ decode.pc = "bitmap"
  /\ \E outcome \in {"unavailable", "rejected", "canvasThrows", "bitmap"} :
       LET after == decodeWithImageBitmap(decode, resources, outcome) IN
       /\ decode' = after.decode
       /\ resources' = after.resources
  /\ UNCHANGED DecodeRest

DecodeWithImageBitmapRetry ==
  /\ decode.pc = "bitmapRetry"
  /\ \E outcome \in {"rejected", "canvasThrows", "bitmap"} :
       LET after == decodeWithImageBitmapRetry(decode, resources, outcome) IN
       /\ decode' = after.decode
       /\ resources' = after.resources
  /\ UNCHANGED DecodeRest

DecodeWithImageElement ==
  /\ decode.pc = "element"
  /\ \E outcome \in {"loadError", "canvasThrows", "image"} :
       LET after == decodeWithImageElement(decode, resources, outcome) IN
       /\ decode' = after.decode
       /\ resources' = after.resources
  /\ UNCHANGED DecodeRest

ReadTrailingData ==
  /\ decode.pc = "trailing"
  /\ \E outcome \in {"found", "null", "throws"} :
       decode' = readTrailingData(decode, outcome)
  /\ UNCHANGED resources
  /\ UNCHANGED DecodeRest

InitDecode ==
  /\ CarveIdle
  /\ pc = "start"
  /\ BitPlaneIdle
  /\ DetectorIdle
  /\ HeapFresh
  /\ ShellIdle

NextDecode ==
  \/ DecodeImageFileEnter
  \/ ReadExif
  \/ ReadSourceBytes
  \/ DecodeGifFramesOpen
  \/ DecodeGifFramesFrame
  \/ DecodeWithImageBitmap
  \/ DecodeWithImageBitmapRetry
  \/ DecodeWithImageElement
  \/ ReadTrailingData

SpecDecode == InitDecode /\ [][NextDecode]_vars

DecodeSettled == decode.pc \in {"returned", "thrown"}

\* C27: decodeImageFile throws only for an unsupported file or when both
\* pixel decoders failed; once pixels were decoded it returns, with exif
\* null when reading EXIF threw and trailingData null when reading the
\* bytes or extracting the trailing data threw.
C27_MetadataFailuresTolerated ==
  /\ decode.pc = "thrown" =>
       \/ decode.format = "none"
       \/ decode.element \in {"loadError", "canvasThrows"}
  /\ DecodeSettled /\ decode.imageData # "none" => decode.pc = "returned"
  /\ decode.exifRead = "throws" => decode.exif = "null"
  /\ decode.pc = "returned" /\ decode.bytesRead = "throws" =>
       decode.trailingData = "null"
  /\ decode.trailingRead = "throws" => decode.trailingData = "null"

\* the image was returned although reading EXIF and extracting the trailing
\* data both threw
C27_Witness ==
  /\ decode.pc = "returned"
  /\ decode.exifRead = "throws"
  /\ decode.trailingRead = "throws"
  /\ decode.imageData = "bitmap"

\* C28: every resource decodeImageFile acquired is released exactly once
\* by the time it returns or throws, and never more than once.
C28_ReleasedExactlyOnce ==
  /\ \A i \in 1..Len(resources) : resources[i].released <= 1
  /\ DecodeSettled => \A i \in 1..Len(resources) : resources[i].released = 1

\* ------------------------------------------------------------------------
\* registerServiceWorker, the document's progress and the window's load
\* event
\* ------------------------------------------------------------------------
\* most load events dispatched on the window
MaxLoadEvents == 2

ReadyStates == <<"loading", "interactive", "complete">>

\* a load listener that stays registered after it has run
addLoadListenerKept(listeners) ==
  Append(listeners, [type |-> "load", once |-> FALSE])

\* window.addEventListener("load", register, { once: true })
addLoadListener(listeners) ==
  Append(listeners, [type |-> "load", once |-> TRUE])

keptListener(listener) == ~listener.once

registerServiceWorker(w) ==
  LET called == [w EXCEPT !.pc = "returned", !.readyStateAtCall = w.readyState] IN
  IF ~w.hasWindow \/ ~w.hasDocument THEN called
  ELSE IF ~w.hasServiceWorker THEN called
  ELSE IF w.readyState = "complete"
    THEN [called EXCEPT !.registerCalls = @ + 1]
  ELSE [called EXCEPT !.listeners = addLoadListener(@),
                      !.listenersAdded = @ + 1]

\* the window dispatches load: every listener runs register, and those
\* added with once are removed
dispatchLoad(w) ==
  [w EXCEPT !.registerCalls = @ + Len(w.listeners),
            !.listeners = SelectSeq(@, keptListener),
            !.loadEvents = @ + 1,
            !.loadEventsSinceCall = IF w.pc = "returned" THEN @ + 1 ELSE @]

WorkerRest == <<carveVars, bitPlaneVars, detectorVars, heapVars, scanVars, walkVars, decodeVars, appVars>>

RegisterServiceWorker ==
  /\ worker.pc = "idle"
  /\ worker' = registerServiceWorker(worker)
  /\ UNCHANGED WorkerRest

DocumentProgress ==
  /\ worker.hasDocument
  /\ \E i \in 1..2 :
       /\ worker.readyState = ReadyStates[i]
       /\ worker' = [worker EXCEPT !.readyState = ReadyStates[i + 1]]
  /\ UNCHANGED WorkerRest

LoadEvent ==
  /\ worker.hasWindow
  /\ worker.loadEvents < MaxLoadEvents
  /\ worker' = dispatchLoad(worker)
  /\ UNCHANGED WorkerRest

InitWorker ==
  /\ CarveIdle
  /\ pc = "start"
  /\ BitPlaneIdle
  /\ DetectorIdle
  /\ HeapFresh
  /\ ScanIdle
  /\ WalkIdle
  /\ DecodeIdle
  /\ AppIdle
  /\ \E hasWindow \in BOOLEAN, hasDocument \in BOOLEAN, hasServiceWorker \in BOOLEAN :
       \E readyState \in (IF hasDocument THEN {"loading", "interactive", "complete"}
                                       ELSE {"loading"}) :
         worker = [WorkerFresh EXCEPT !.hasWindow = hasWindow,
                                      !.hasDocument = hasDocument,
                                      !.hasServiceWorker = hasServiceWorker,
                                      !.readyState = readyState]

NextWorker == RegisterServiceWorker \/ DocumentProgress \/ LoadEvent

SpecWorker == InitWorker /\ [][NextWorker]_vars

ServiceWorkerAvailable ==
  worker.hasWindow /\ worker.hasDocument /\ worker.hasServiceWorker

\* C29: one call of registerServiceWorker makes at most one call of
\* navigator.serviceWorker.register: at once and with no load listener when
\* the document was complete, otherwise exactly when a load event has fired
\* since the call, and never when service workers are unavailable.
C29_RegistersAtMostOnce ==
  /\ worker.registerCalls <= 1
  /\ worker.pc = "idle" => worker.registerCalls = 0 /\ worker.listenersAdded = 0
  /\ ~ServiceWorkerAvailable =>
       worker.registerCalls = 0 /\ worker.listenersAdded = 0
  /\ worker.pc = "returned" /\ ServiceWorkerAvailable =>
       IF worker.readyStateAtCall = "complete"
         THEN worker.registerCalls = 1 /\ worker.listenersAdded = 0
         ELSE /\ worker.listenersAdded = 1
              /\ worker.registerCalls = 1 <=> worker.loadEventsSinceCall >= 1

\* the call was made while the document was loading and two load events
\* have fired since
C29_Witness ==
  /\ worker.pc = "returned"
  /\ ServiceWorkerAvailable
  /\ worker.readyStateAtCall = "loading"
  /\ worker.loadEventsSinceCall = 2
  /\ worker.registerCalls = 1

\* ------------------------------------------------------------------------
\* App.handleFile: the part before its await, and the part that runs when
\* decodeImageFile settles; several calls may be waiting at once
\* ------------------------------------------------------------------------
\* most files handed to handleFile in one run
MaxLoads == 2

\* a load is named by its position in the order handleFile was called;
\* decoded and error hold the load whose result or message they show
\* cleared records that resetState was the last of the three to run
handleFileEnter(a) ==
  [a EXCEPT !.error = Null, !.isLoading = TRUE, !.cleared = FALSE]

handleFileSettle(a, load, outcome) ==
  IF outcome = "returned"
    THEN [a EXCEPT !.decoded = load, !.isLoading = FALSE, !.cleared = FALSE]
    ELSE [a EXCEPT !.error = load, !.decoded = Null, !.isLoading = FALSE,
                   !.cleared = FALSE]

\* the Clear button's handler
resetState(a) ==
  [a EXCEPT !.decoded = Null, !.error = Null, !.cleared = TRUE]

\* how decodeImageFile can settle for a file
decodeOutcomes(file) ==
  IF normalizeImageFormat(file) = "none"
    THEN {"thrown"}
    ELSE {"returned", "thrown"}

Pending(load) == loads[load].state = "pending"

LoadFiles ==
  { [type |-> "image/gif", name |-> ".GIF"],
    [type |-> "", name |-> ".jpeg"],
    [type |-> "text/plain", name |-> ".txt"] }

AppRest == <<carveVars, bitPlaneVars, detectorVars, heapVars, scanVars, walkVars, decodeVars, workerVars>>

HandleFile ==
  /\ Len(loads) < MaxLoads
  /\ \E file \in LoadFiles :
       loads' = Append(loads,
                  [file |-> file, state |-> "pending",
                   overlaps |-> \E load \in 1..Len(loads) : Pending(load)])
  /\ app' = handleFileEnter(app)
  /\ UNCHANGED AppRest

DecodeSettles ==
  /\ \E load \in 1..Len(loads) :
       /\ Pending(load)
       /\ \E outcome \in decodeOutcomes(loads[load].file) :
            /\ loads' = [loads EXCEPT ![load].state = outcome]
            /\ app' = handleFileSettle(app, load, outcome)
  /\ UNCHANGED AppRest

\* Clear is enabled while an image or an error is shown
ResetState ==
  /\ app.decoded # Null \/ app.error # Null
  /\ app' = resetState(app)
  /\ UNCHANGED loads
  /\ UNCHANGED AppRest

InitApp ==
  /\ CarveIdle
  /\ pc = "start"
  /\ BitPlaneIdle
  /\ DetectorIdle
  /\ HeapFresh
  /\ ShellIdle

NextApp == HandleFile \/ DecodeSettles \/ ResetState

SpecApp == InitApp /\ [][NextApp]_vars

AllSettled == \A load \in 1..Len(loads) : ~Pending(load)

\* C30: when a load was started while an earlier one was still decoding,
\* then once every load has finished (and the user has not cleared the
\* screen since) the decoded image and the error message are those of the
\* load that was started last.
C30_LastLoadWins ==
  /\ Len(loads) >= 2
  /\ loads[Len(loads)].overlaps
  /\ AllSettled
  /\ ~app.cleared
  =>
  LET last == Len(loads) IN
  /\ app.decoded = IF loads[last].state = "returned" THEN last ELSE Null
  /\ app.error = IF loads[last].state = "thrown" THEN last ELSE Null

\* without overlap the last load's outcome is what the application shows
SequentialLastLoadWins ==
  /\ Len(loads) >= 1
  /\ \A load \in 1..Len(loads) : ~loads[load].overlaps
  /\ AllSettled
  /\ ~app.cleared
  =>
  LET last == Len(loads) IN
  /\ app.decoded = IF loads[last].state = "returned" THEN last ELSE Null
  /\ app.error = IF loads[last].state = "thrown" THEN last ELSE Null

====
